---- MODULE Spec2Model ----
(***************************************************************************)
(* Verification model of the image-to-pattern core of CrossStitchPatterns: *)
(* colour matching and palette selection (color_matching.py), confetti     *)
(* reduction (confetti.py) and the image style classifier                  *)
(* (image_mode_detector.py).                                               *)
(*                                                                         *)
(* Numbers.  The source computes CIE LAB in float64.  The model computes   *)
(* the same formulas in fixed point: linear RGB and XYZ are scaled by      *)
(* 10^4, the LAB transfer function f by 10^3, L/a/b by 10^2, and every     *)
(* division rounds toward minus infinity.  Sequences are 1-based; every    *)
(* index the program stores (DMC index, palette index) is kept 0-based as  *)
(* in the source.                                                          *)
(***************************************************************************)
EXTENDS Integers, Sequences, FiniteSets, TLC

VARIABLES
    \* ---- select_palette (color_matching.py) ----
    pixels,               \* argument: 2D grid (sequence of rows) of RGB triples
    num_colors,           \* argument
    min_frequency_pct,    \* argument, in whole percent
    sp_pc,                \* position inside select_palette
    flat_dmc_indices,     \* matched DMC index of every pixel, row-major
    matched_frequency,    \* Counter after step 2 (before the threshold)
    frequency,            \* Counter after step 3
    top_dmc_indices,      \* step 4
    dmc_to_palette_map,   \* step 5: DMC index -> palette index
    sp_result,            \* what the call produced
    \* ---- find_nearest_dmc (scalar) ----
    fn_rgb, fn_pc, fn_result, fn_batch,
    \* ---- reduce_confetti ----
    heap,                 \* list objects: object id -> grid contents
    cells,                \* the local name `cells`: an object id
    caller_cells,         \* contents of the caller's grid before the call
    pass_start,           \* contents of `cells` at the start of the last pass
    num_passes, passes_done, rc_pc,
    \* ---- DeterministicHeuristicImageModeDetector.detect ----
    det_pixels, det_pc, det_result,
    \* ---- the calculators: pattern_tiling.py, stitch_count.py, floss.py,
    \*      fabric.py (pure functions, one call per behaviour) ----
    calc_fn,              \* name of the function called
    calc_args,            \* its arguments, a record named as its parameters
    calc_pc,              \* "call" before the call, "done" after it
    calc_result,          \* [error, value]: the exception raised or the value
    \* ---- the orchestrating entry points (application layer) ----
    wf_entry,             \* entry point executing
    wf_request,           \* its request object
    wf_image,             \* the image behind request.image_data
    wf_pc,                \* position inside the entry point
    wf_target,            \* target_width, target_height in effect
    wf_mode,              \* local `mode`
    wf_pixels,            \* local `pixels`
    wf_selected,          \* what select_palette returned
    wf_index_grid,        \* local `index_grid`
    wf_calls,             \* calls made to ports and domain services, in order
    wf_result,            \* what the entry point produced
    \* ---- the project use cases with their repositories and storage ----
    pj_entry,             \* use case executing
    pj_request,           \* its request object
    pj_faults,            \* the port calls that raise during this execution
    pj_pc,                \* position inside execute
    pj_project,           \* project repository: the record of the project
    pj_files,             \* file storage: the files kept for the project
    pj_results,           \* pattern result repository: the records added
    pj_updates,           \* statuses written by update_status, in order
    pj_image,             \* local `image_data`
    pj_workflow,          \* what the pattern pipeline produced
    pj_outcome,           \* how execute ended
    \* ---- threads sharing the module-level DMC caches ----
    _dmc_lab_cache,       \* global: scalar table, or None
    _dmc_colors_ordered,  \* global: ordered colour list, or None
    _dmc_lab_array,       \* global: LAB array, or None
    th_call,              \* per thread: the function called and its argument
    th_pc,                \* per thread: position inside the call
    th_local,             \* per thread: local variables
    th_result             \* per thread: the value returned

vars == << pixels, num_colors, min_frequency_pct, sp_pc, flat_dmc_indices,
           matched_frequency, frequency, top_dmc_indices, dmc_to_palette_map,
           sp_result, fn_rgb, fn_pc, fn_result, fn_batch, heap, cells, caller_cells,
           pass_start, num_passes, passes_done, rc_pc, det_pixels, det_pc,
           det_result, calc_fn, calc_args, calc_pc, calc_result, wf_entry,
           wf_request, wf_image, wf_pc, wf_target, wf_mode, wf_pixels,
           wf_selected, wf_index_grid, wf_calls, wf_result, pj_entry,
           pj_request, pj_faults, pj_pc, pj_project, pj_files, pj_results,
           pj_updates, pj_image, pj_workflow, pj_outcome, _dmc_lab_cache,
           _dmc_colors_ordered, _dmc_lab_array, th_call, th_pc, th_local,
           th_result >>

sp_vars == << pixels, num_colors, min_frequency_pct, sp_pc, flat_dmc_indices,
              matched_frequency, frequency, top_dmc_indices,
              dmc_to_palette_map, sp_result >>
fn_vars == << fn_rgb, fn_pc, fn_result, fn_batch >>
rc_vars == << heap, cells, caller_cells, pass_start, num_passes, passes_done,
              rc_pc >>
det_vars == << det_pixels, det_pc, det_result >>
calc_vars == << calc_fn, calc_args, calc_pc, calc_result >>
wf_vars == << wf_entry, wf_request, wf_image, wf_pc, wf_target, wf_mode,
             wf_pixels, wf_selected, wf_index_grid, wf_calls, wf_result >>
pj_vars == << pj_entry, pj_request, pj_faults, pj_pc, pj_project, pj_files,
             pj_results, pj_updates, pj_image, pj_workflow, pj_outcome >>
th_vars == << _dmc_lab_cache, _dmc_colors_ordered, _dmc_lab_array, th_call,
             th_pc, th_local, th_result >>

(***************************************************************************)
(* Generic helpers                                                         *)
(***************************************************************************)
Min(a, b) == IF a <= b THEN a ELSE b

Abs(a) == IF a < 0 THEN -a ELSE a

Range(s) == { s[i] : i \in 1..Len(s) }

RECURSIVE Flatten(_)
Flatten(rows) == IF rows = << >> THEN << >> ELSE Head(rows) \o Flatten(Tail(rows))

\* largest k in lo..hi with k^3 <= n
RECURSIVE CbrtSearch(_, _, _)
CbrtSearch(n, lo, hi) ==
    IF lo = hi THEN lo
    ELSE LET mid == (lo + hi + 1) \div 2
         IN  IF mid * mid * mid <= n THEN CbrtSearch(n, mid, hi)
             ELSE CbrtSearch(n, lo, mid - 1)

(***************************************************************************)
(* Colour space conversion: rgb_to_lab, _srgb_to_linear, _lab_f, delta_e   *)
(***************************************************************************)

\* ((c/255 + 0.055) / 1.055) ** 2.4, and c/255/12.92 for c/255 <= 0.04045,
\* for every 8-bit channel value c = 0..255, times 10^4, rounded.
SrgbLinearTable ==
  << 0, 3, 6, 9, 12, 15, 18, 21, 24, 27, 30, 33, 37, 40, 44, 48,
     52, 56, 60, 65, 70, 75, 80, 86, 91, 97, 103, 110, 116, 123, 130, 137,
     144, 152, 160, 168, 176, 185, 194, 203, 212, 222, 232, 242, 252, 262, 273, 284,
     296, 307, 319, 331, 343, 356, 369, 382, 395, 409, 423, 437, 452, 467, 482, 497,
     513, 529, 545, 561, 578, 595, 612, 630, 648, 666, 685, 704, 723, 742, 762, 782,
     802, 823, 844, 865, 887, 908, 931, 953, 976, 999, 1022, 1046, 1070, 1095, 1119, 1144,
     1170, 1195, 1221, 1248, 1274, 1301, 1329, 1356, 1384, 1413, 1441, 1470, 1500, 1529, 1559, 1590,
     1620, 1651, 1683, 1714, 1746, 1779, 1812, 1845, 1878, 1912, 1946, 1981, 2016, 2051, 2086, 2122,
     2159, 2195, 2232, 2270, 2307, 2346, 2384, 2423, 2462, 2502, 2542, 2582, 2623, 2664, 2705, 2747,
     2789, 2831, 2874, 2918, 2961, 3005, 3050, 3095, 3140, 3185, 3231, 3278, 3325, 3372, 3419, 3467,
     3515, 3564, 3613, 3663, 3712, 3763, 3813, 3864, 3916, 3968, 4020, 4072, 4125, 4179, 4233, 4287,
     4342, 4397, 4452, 4508, 4564, 4621, 4678, 4735, 4793, 4851, 4910, 4969, 5029, 5089, 5149, 5210,
     5271, 5333, 5395, 5457, 5520, 5583, 5647, 5711, 5776, 5841, 5906, 5972, 6038, 6105, 6172, 6240,
     6308, 6376, 6445, 6514, 6584, 6654, 6724, 6795, 6867, 6939, 7011, 7084, 7157, 7231, 7305, 7379,
     7454, 7529, 7605, 7682, 7758, 7835, 7913, 7991, 8070, 8148, 8228, 8308, 8388, 8469, 8550, 8632,
     8714, 8796, 8879, 8963, 9047, 9131, 9216, 9301, 9387, 9473, 9560, 9647, 9734, 9823, 9911, 10000 >>

\* _srgb_to_linear applied to channel value c (0..255); result times 10^4
srgb_to_linear(c) == SrgbLinearTable[c + 1]

\* _lab_f(t), t times 10^4; result times 10^3.
\* (6/29)^3 = 0.00885645...,  1/(3*(6/29)^2) = 7.787...,  4/29 = 0.1379...
lab_f(t) ==
    IF t * 10000 > 885645
    THEN CbrtSearch(t * 100000, 0, 1000)
    ELSE (t * 7787) \div 10000 + 138

\* L, a, b (times 10^2) from linear r, g, b (times 10^4)
LabOfLinear(r, g, b) ==
    LET x0 == (r * 4125 + g * 3576 + b * 1804) \div 10000
        y0 == (r * 2127 + g * 7152 + b * 722) \div 10000
        z0 == (r * 193 + g * 1192 + b * 9503) \div 10000
        x  == lab_f((x0 * 100000) \div 95047)
        y  == lab_f(y0)
        z  == lab_f((z0 * 100000) \div 108883)
    IN  << (116 * y - 16000) \div 10, (500 * (x - y)) \div 10, (200 * (y - z)) \div 10 >>

rgb_to_lab(rgb) ==
    LabOfLinear(srgb_to_linear(rgb[1]), srgb_to_linear(rgb[2]), srgb_to_linear(rgb[3]))

\* vectorised conversion of a sequence of RGB rows.  An array built from an
\* empty list has shape (0,) and no second axis: `linear @ M.T` then raises
\* ValueError, reported in the field `error`.
rgb_array_to_lab(rgb) ==
    IF rgb = << >> THEN [error |-> "ValueError", lab |-> << >>]
    ELSE [error |-> "none",
          lab |-> [i \in 1..Len(rgb) |->
                      LabOfLinear(srgb_to_linear(rgb[i][1]), srgb_to_linear(rgb[i][2]),
                                  srgb_to_linear(rgb[i][3]))]]

\* squared Euclidean LAB distance (np.sum(diff ** 2))
dist_sq(lab1, lab2) ==
    (lab1[1] - lab2[1]) * (lab1[1] - lab2[1])
  + (lab1[2] - lab2[2]) * (lab1[2] - lab2[2])
  + (lab1[3] - lab2[3]) * (lab1[3] - lab2[3])

\* delta_e: math.sqrt of the squared distance.  The root is kept exact, as
\* the number it is the root of: two squared distances that differ on the
\* model's grid differ by far more than the rounding of math.sqrt, so their
\* roots are different floats in the order of the squared distances.
delta_e(lab1, lab2) == [root_of |-> dist_sq(lab1, lab2)]

\* variant: the last of equal minima
argmin_Last(s) ==
    CHOOSE i \in 1..Len(s) :
        /\ \A j \in 1..Len(s) : s[i] <= s[j]
        /\ \A j \in (i + 1)..Len(s) : s[j] > s[i]

\* np.argmin of a non-empty sequence: 1-based position of the first minimum
argmin(s) ==
    CHOOSE i \in 1..Len(s) :
        /\ \A j \in 1..Len(s) : s[i] <= s[j]
        /\ \A j \in 1..(i - 1) : s[j] > s[i]

(***************************************************************************)
(* The DMC catalog.  DMC_COLORS is a dict in insertion order; the model    *)
(* keeps a short catalog in that form: a sequence of entries.  The last    *)
(* entry has the RGB of an earlier one, so that two entries can be exactly *)
(* equally near to a colour.                                               *)
(***************************************************************************)
DMC_COLORS ==
    << [number |-> "B5200", r |-> 255, g |-> 255, b |-> 255],
       [number |-> "White", r |-> 252, g |-> 251, b |-> 248],
       [number |-> "310",   r |-> 0,   g |-> 0,   b |-> 0],
       [number |-> "321",   r |-> 199, g |-> 43,  b |-> 59],
       [number |-> "699",   r |-> 5,   g |-> 101, b |-> 23],
       [number |-> "796",   r |-> 17,  g |-> 65,  b |-> 109],
       [number |-> "310-2", r |-> 0,   g |-> 0,   b |-> 0] >>

RgbOf(dmc) == << dmc.r, dmc.g, dmc.b >>

\* _get_dmc_lab_table: the scalar cache, one (colour, LAB) pair per entry
dmc_lab_table == [i \in 1..Len(DMC_COLORS) |-> rgb_to_lab(RgbOf(DMC_COLORS[i]))]

\* _get_dmc_numpy_cache: the ordered colour list and its LAB array
dmc_colors_ordered == DMC_COLORS

dmc_lab_array == [i \in 1..Len(DMC_COLORS) |-> rgb_to_lab(RgbOf(DMC_COLORS[i]))]

(***************************************************************************)
(* find_nearest_dmc (scalar) and find_nearest_dmc_batch (vectorised)       *)
(***************************************************************************)

\* variant: `<=`, the last of equally near entries wins
NearerThanBest_OrEqual(dist, best_dist) == dist.root_of <= best_dist.root_of

\* the `if dist < best_dist` test of the scan
NearerThanBest(dist, best_dist) == dist.root_of < best_dist.root_of

\* the loop over table[1:]; i is the 1-based position examined next,
\* best the 1-based position of best_color
RECURSIVE NearestScan(_, _, _, _)
NearestScan(target_lab, i, best, best_dist) ==
    IF i > Len(dmc_lab_table) THEN best
    ELSE LET dist == delta_e(target_lab, dmc_lab_table[i])
         IN  IF NearerThanBest(dist, best_dist)
             THEN NearestScan(target_lab, i + 1, i, dist)
             ELSE NearestScan(target_lab, i + 1, best, best_dist)

\* returns the 1-based catalog position of the DmcColor the source returns
find_nearest_dmc(rgb) ==
    LET target_lab == rgb_to_lab(rgb)
    IN  NearestScan(target_lab, 2, 1, delta_e(target_lab, dmc_lab_table[1]))

\* returns, per pixel, the 0-based index into list(DMC_COLORS.values())
find_nearest_dmc_batch(rgb_pixels) ==
    LET pixel_labs == rgb_array_to_lab(rgb_pixels).lab
    IN  [i \in 1..Len(rgb_pixels) |->
            argmin([j \in 1..Len(dmc_lab_array) |->
                        dist_sq(pixel_labs[i], dmc_lab_array[j])]) - 1]

(***************************************************************************)
(* select_palette                                                          *)
(***************************************************************************)

\* lexicographic order of RGB rows, the order np.unique(axis=0) sorts by
RgbLess(a, b) ==
    \/ a[1] < b[1]
    \/ a[1] = b[1] /\ a[2] < b[2]
    \/ a[1] = b[1] /\ a[2] = b[2] /\ a[3] < b[3]

RECURSIVE SortedRgb(_)
SortedRgb(S) ==
    IF S = {} THEN << >>
    ELSE LET m == CHOOSE x \in S : \A y \in S \ {x} : RgbLess(x, y)
         IN  << m >> \o SortedRgb(S \ {m})

\* np.unique(flat_rgb, axis=0, return_inverse=True); inverse is 1-based here
np_unique(flat_rgb) ==
    LET unique_rgb == SortedRgb(Range(flat_rgb))
    IN  [unique_rgb |-> unique_rgb,
         inverse |-> [i \in 1..Len(flat_rgb) |->
                         CHOOSE u \in 1..Len(unique_rgb) : unique_rgb[u] = flat_rgb[i]]]

\* Step 1: the matched DMC index of every pixel, row-major
MatchPixels(px) ==
    LET flat_rgb == Flatten(px)
        u == np_unique(flat_rgb)
        dmc_indices_for_unique == find_nearest_dmc_batch(u.unique_rgb)
    IN  [i \in 1..Len(flat_rgb) |-> dmc_indices_for_unique[u.inverse[i]]]

\* A Counter is modelled as the sequence of its (key, count) items in
\* insertion order, which is the order of first occurrence.
CountOf(k, s) == Cardinality({ i \in 1..Len(s) : s[i] = k })

RECURSIVE FirstOccurrences(_, _)
FirstOccurrences(s, seen) ==
    IF s = << >> THEN << >>
    ELSE IF Head(s) \in seen THEN FirstOccurrences(Tail(s), seen)
    ELSE << Head(s) >> \o FirstOccurrences(Tail(s), seen \cup {Head(s)})

\* Step 2: Counter(flat_dmc_indices.tolist())
Counter(s) ==
    LET keys == FirstOccurrences(s, {})
    IN  [i \in 1..Len(keys) |-> << keys[i], CountOf(keys[i], s) >>]

Keys(counter) == { counter[i][1] : i \in 1..Len(counter) }

\* variant: `v > min_count`, a colour exactly at the threshold is dropped
SurvivesThreshold_Strict(v, total_pixels, pct) == v * 100 > total_pixels * pct

\* the test `v >= min_count` with min_count = total_pixels * pct / 100.0
SurvivesThreshold(v, total_pixels, pct) == v * 100 >= total_pixels * pct

RECURSIVE FilterCounter(_, _, _)
FilterCounter(counter, total_pixels, pct) ==
    IF counter = << >> THEN << >>
    ELSE (IF SurvivesThreshold(Head(counter)[2], total_pixels, pct)
          THEN << Head(counter) >> ELSE << >>)
         \o FilterCounter(Tail(counter), total_pixels, pct)

\* Step 3
ApplyThreshold(counter, total_pixels, pct) ==
    IF pct > 0 /\ total_pixels > 0
    THEN FilterCounter(counter, total_pixels, pct)
    ELSE counter

\* variant: an unstable sort that puts the latest inserted of equal counts first
FirstLargest_LastTie(counter) ==
    CHOOSE i \in 1..Len(counter) :
        /\ \A j \in 1..Len(counter) : counter[j][2] <= counter[i][2]
        /\ \A j \in (i + 1)..Len(counter) : counter[j][2] < counter[i][2]

\* position of the item that sorted(..., key=count, reverse=True) puts first:
\* the highest count, and among equal counts the earliest inserted
FirstLargest(counter) ==
    CHOOSE i \in 1..Len(counter) :
        /\ \A j \in 1..Len(counter) : counter[j][2] <= counter[i][2]
        /\ \A j \in 1..(i - 1) : counter[j][2] < counter[i][2]

RemoveAt(s, i) == SubSeq(s, 1, i - 1) \o SubSeq(s, i + 1, Len(s))

\* Counter.most_common(n): the n first items of the stable descending sort
RECURSIVE most_common(_, _)
most_common(counter, n) ==
    IF n <= 0 \/ counter = << >> THEN << >>
    ELSE LET i == FirstLargest(counter)
         IN  << counter[i] >> \o most_common(RemoveAt(counter, i), n - 1)

\* Step 4: top_dmc_indices
actual_colors(n, counter) == Min(n, Len(counter))

SelectTop(counter, n) ==
    LET top == most_common(counter, actual_colors(n, counter))
    IN  [i \in 1..Len(top) |-> top[i][1]]

\* dmc_list = [dmc_colors_ordered[i] for i in top_dmc_indices]
DmcList(top) == [i \in 1..Len(top) |-> dmc_colors_ordered[top[i] + 1]]

\* palette position (0-based) of a selected DMC index
PalettePos(top, dmc_idx) == (CHOOSE p \in 1..Len(top) : top[p] = dmc_idx) - 1

\* variant: no remapping, the pixel keeps its DMC index
NearestPalette_NoRemap(dmc_idx, selected_lab) == dmc_idx

\* variant: every dropped colour goes to palette entry 0
NearestPalette_PaletteZero(dmc_idx, selected_lab) == 0

\* the fallback branch: nearest selected colour of a DMC colour that was not
\* selected (argmin over the squared LAB distance to selected_lab)
NearestPalette(dmc_idx, selected_lab) ==
    LET c == dmc_colors_ordered[dmc_idx + 1]
        fb_lab == rgb_array_to_lab(<< RgbOf(c) >>).lab[1]
    IN  argmin([k \in 1..Len(selected_lab) |-> dist_sq(fb_lab, selected_lab[k])]) - 1

\* selected_lab = _rgb_array_to_lab(selected_rgb)
SelectedLab(top) ==
    rgb_array_to_lab([i \in 1..Len(top) |-> RgbOf(DmcList(top)[i])])

\* Step 5: dmc_to_palette_map.  The source allocates it with np.empty and
\* writes the entries of the DMC indices that occur in flat_dmc_indices; the
\* model's function has exactly the written entries as its domain.
RemapTable(top, flat, selected_lab) ==
    [d \in Range(flat) |->
        IF d \in Range(top) THEN PalettePos(top, d)
        ELSE NearestPalette(d, selected_lab)]

\* Step 6: flat_palette_indices.reshape(height, width).tolist()
IndexGrid(map, flat, height, width) ==
    [y \in 1..height |-> [x \in 1..width |-> map[flat[(y - 1) * width + x]]]]

\* variant: channels stored in B, G, R order
PaletteOf_BGR(dmc_list) ==
    [error |-> IF dmc_list = << >> THEN "ValueError" ELSE "none",
     colors |-> [i \in 1..Len(dmc_list) |->
                    << dmc_list[i].b, dmc_list[i].g, dmc_list[i].r >>]]

\* Palette(colors=...): __post_init__ raises ValueError on an empty list
PaletteOf(dmc_list) ==
    [error |-> IF dmc_list = << >> THEN "ValueError" ELSE "none",
     colors |-> [i \in 1..Len(dmc_list) |-> RgbOf(dmc_list[i])]]

(***************************************************************************)
(* Bounds and inputs of the select_palette specification                   *)
(***************************************************************************)
\* largest number of pixels of an enumerated grid
MaxPixels == 4

\* largest num_colors tried
MaxColors == 3

\* min_frequency_pct values tried, in percent
PctValues == {0, 15, 25, 50, 60, 100}

\* pixel colours: black, near-black (matched to the same DMC colour as
\* black), white, red
InputColors == { << 0, 0, 0 >>, << 10, 10, 10 >>, << 255, 255, 255 >>,
                 << 255, 0, 0 >> }

Rep(x, n) == [i \in 1..n |-> x]

\* the grids of TestSelectPaletteFrequencyThreshold: 9 black + 1 red, and
\* 5 black + 3 white + 1 red + 1 blue
NineToOne == << Rep(<< 0, 0, 0 >>, 9) \o << << 255, 0, 0 >> >> >>

FiveThreeOneOne ==
    << Rep(<< 0, 0, 0 >>, 5) \o Rep(<< 255, 255, 255 >>, 3)
       \o << << 255, 0, 0 >>, << 0, 0, 255 >> >> >>

PixelGrids ==
    UNION { [1..hw[1] -> [1..hw[2] -> InputColors]] :
              hw \in { d \in (1..MaxPixels) \X (1..MaxPixels) : d[1] * d[2] <= MaxPixels } }
    \cup { NineToOne, FiveThreeOneOne }

NoResult == [status |-> "none", palette |-> << >>, index_grid |-> << >>,
             dmc_list |-> << >>]

RaisedValueError == [status |-> "ValueError", palette |-> << >>,
                     index_grid |-> << >>, dmc_list |-> << >>]

SpIdle ==
    /\ pixels = << >> /\ num_colors = 0 /\ min_frequency_pct = 0
    /\ sp_pc = "idle" /\ flat_dmc_indices = << >> /\ matched_frequency = << >>
    /\ frequency = << >> /\ top_dmc_indices = << >>
    /\ dmc_to_palette_map = << >> /\ sp_result = NoResult

FnIdle ==
    fn_rgb = << >> /\ fn_pc = "idle" /\ fn_result = 0 /\ fn_batch = << >>

RcIdle ==
    /\ heap = << >> /\ cells = 0 /\ caller_cells = << >> /\ pass_start = << >>
    /\ num_passes = 0 /\ passes_done = 0 /\ rc_pc = "idle"

DetIdle == det_pixels = << >> /\ det_pc = "idle" /\ det_result = << >>

CalcIdle ==
    /\ calc_fn = "none" /\ calc_args = << >> /\ calc_pc = "idle"
    /\ calc_result = << >>

WfIdle ==
    /\ wf_entry = "none" /\ wf_request = << >> /\ wf_image = << >>
    /\ wf_pc = "idle" /\ wf_target = << >> /\ wf_mode = "none"
    /\ wf_pixels = << >> /\ wf_selected = << >> /\ wf_index_grid = << >>
    /\ wf_calls = << >> /\ wf_result = << >>

PjIdle ==
    /\ pj_entry = "none" /\ pj_request = << >> /\ pj_faults = {}
    /\ pj_pc = "idle" /\ pj_project = << >> /\ pj_files = {}
    /\ pj_results = << >> /\ pj_updates = << >> /\ pj_image = "none"
    /\ pj_workflow = << >>
    /\ pj_outcome = [status |-> "none", exception |-> "none"]

ThIdle ==
    /\ _dmc_lab_cache = << >> /\ _dmc_colors_ordered = << >>
    /\ _dmc_lab_array = << >> /\ th_call = << >> /\ th_pc = << >>
    /\ th_local = << >> /\ th_result = << >>

Height(px) == Len(px)

Width(px) == IF Len(px) > 0 THEN Len(px[1]) ELSE 0

InitPalette ==
    /\ pixels \in PixelGrids
    /\ num_colors \in 1..MaxColors
    /\ min_frequency_pct \in PctValues
    /\ sp_pc = "step1"
    /\ flat_dmc_indices = << >> /\ matched_frequency = << >>
    /\ frequency = << >> /\ top_dmc_indices = << >>
    /\ dmc_to_palette_map = << >> /\ sp_result = NoResult
    /\ FnIdle /\ RcIdle /\ DetIdle /\ CalcIdle /\ WfIdle /\ PjIdle /\ ThIdle

\* Step 1: match every pixel to its nearest DMC colour
SP_Match ==
    /\ sp_pc = "step1"
    /\ flat_dmc_indices' = MatchPixels(pixels)
    /\ sp_pc' = "step2"
    /\ UNCHANGED << pixels, num_colors, min_frequency_pct, matched_frequency,
                    frequency, top_dmc_indices, dmc_to_palette_map, sp_result >>
    /\ UNCHANGED << fn_vars, rc_vars, det_vars, calc_vars, wf_vars, pj_vars, th_vars >>

\* Step 2: count the frequency of each matched DMC colour
SP_Count ==
    /\ sp_pc = "step2"
    /\ matched_frequency' = Counter(flat_dmc_indices)
    /\ frequency' = Counter(flat_dmc_indices)
    /\ sp_pc' = "step3"
    /\ UNCHANGED << pixels, num_colors, min_frequency_pct, flat_dmc_indices,
                    top_dmc_indices, dmc_to_palette_map, sp_result >>
    /\ UNCHANGED << fn_vars, rc_vars, det_vars, calc_vars, wf_vars, pj_vars, th_vars >>

\* Step 3: apply the frequency threshold
SP_Threshold ==
    /\ sp_pc = "step3"
    /\ frequency' = ApplyThreshold(frequency, Height(pixels) * Width(pixels),
                                   min_frequency_pct)
    /\ sp_pc' = "step4"
    /\ UNCHANGED << pixels, num_colors, min_frequency_pct, flat_dmc_indices,
                    matched_frequency, top_dmc_indices, dmc_to_palette_map,
                    sp_result >>
    /\ UNCHANGED << fn_vars, rc_vars, det_vars, calc_vars, wf_vars, pj_vars, th_vars >>

\* Step 4: select the top N most frequent DMC colours
SP_SelectTop ==
    /\ sp_pc = "step4"
    /\ top_dmc_indices' = SelectTop(frequency, num_colors)
    /\ sp_pc' = "step5"
    /\ UNCHANGED << pixels, num_colors, min_frequency_pct, flat_dmc_indices,
                    matched_frequency, frequency, dmc_to_palette_map,
                    sp_result >>
    /\ UNCHANGED << fn_vars, rc_vars, det_vars, calc_vars, wf_vars, pj_vars, th_vars >>

\* Step 5: remap non-surviving pixels to the nearest surviving colour; the
\* conversion of an empty selection raises and ends the call
SP_Remap ==
    /\ sp_pc = "step5"
    /\ LET selected_lab == SelectedLab(top_dmc_indices)
       IN  IF selected_lab.error # "none"
           THEN /\ sp_result' = RaisedValueError
                /\ sp_pc' = "done"
                /\ UNCHANGED dmc_to_palette_map
           ELSE /\ dmc_to_palette_map' =
                       RemapTable(top_dmc_indices, flat_dmc_indices, selected_lab.lab)
                /\ sp_pc' = "step6"
                /\ UNCHANGED sp_result
    /\ UNCHANGED << pixels, num_colors, min_frequency_pct, flat_dmc_indices,
                    matched_frequency, frequency, top_dmc_indices >>
    /\ UNCHANGED << fn_vars, rc_vars, det_vars, calc_vars, wf_vars, pj_vars, th_vars >>

\* Step 6: rebuild the 2D index grid, construct the Palette, return
SP_Build ==
    /\ sp_pc = "step6"
    /\ LET dmc_list == DmcList(top_dmc_indices)
           palette == PaletteOf(dmc_list)
       IN  sp_result' =
               IF palette.error # "none" THEN RaisedValueError
               ELSE [status |-> "ok",
                     palette |-> palette.colors,
                     index_grid |-> IndexGrid(dmc_to_palette_map, flat_dmc_indices,
                                              Height(pixels), Width(pixels)),
                     dmc_list |-> dmc_list]
    /\ sp_pc' = "done"
    /\ UNCHANGED << pixels, num_colors, min_frequency_pct, flat_dmc_indices,
                    matched_frequency, frequency, top_dmc_indices,
                    dmc_to_palette_map >>
    /\ UNCHANGED << fn_vars, rc_vars, det_vars, calc_vars, wf_vars, pj_vars, th_vars >>

NextPalette ==
    \/ SP_Match
    \/ SP_Count
    \/ SP_Threshold
    \/ SP_SelectTop
    \/ SP_Remap
    \/ SP_Build

SpecPalette == InitPalette /\ [][NextPalette]_vars

(***************************************************************************)
(* Specification of find_nearest_dmc                                       *)
(***************************************************************************)
FnLevels == {0, 64, 128, 192, 255}

\* channel grid, every catalog colour, and two colours whose two nearest
\* catalog entries are less than 0.01 Delta-E apart
FnInputs ==
    { << r, g, b >> : r \in FnLevels, g \in FnLevels, b \in FnLevels }
    \cup { RgbOf(DMC_COLORS[i]) : i \in 1..Len(DMC_COLORS) }
    \cup { << 60, 160, 165 >>, << 20, 195, 240 >> }

InitNearest ==
    /\ fn_rgb \in FnInputs
    /\ fn_pc = "call"
    /\ fn_result = 0
    /\ fn_batch = << >>
    /\ SpIdle /\ RcIdle /\ DetIdle /\ CalcIdle /\ WfIdle /\ PjIdle /\ ThIdle

FN_Find ==
    /\ fn_pc = "call"
    /\ fn_result' = find_nearest_dmc(fn_rgb)
    /\ fn_pc' = "done"
    /\ UNCHANGED << fn_rgb, fn_batch >>
    /\ UNCHANGED << sp_vars, rc_vars, det_vars, calc_vars, wf_vars, pj_vars, th_vars >>

\* the same colour as a one-row array through find_nearest_dmc_batch, as
\* test_single_pixel_matches_scalar_function calls it after the scalar lookup
FN_FindBatch ==
    /\ fn_pc = "done"
    /\ fn_batch' = find_nearest_dmc_batch(<< fn_rgb >>)
    /\ fn_pc' = "both"
    /\ UNCHANGED << fn_rgb, fn_result >>
    /\ UNCHANGED << sp_vars, rc_vars, det_vars, calc_vars, wf_vars, pj_vars, th_vars >>

NextNearest ==
    \/ FN_Find
    \/ FN_FindBatch

SpecNearest == InitNearest /\ [][NextNearest]_vars

(***************************************************************************)
(* reduce_confetti                                                         *)
(***************************************************************************)
Rows(g) == Len(g)

Cols(g) == IF Len(g) > 0 THEN Len(g[1]) ELSE 0

\* the offsets (dr, dc) in the order of the two nested loops, self skipped
Offsets == << << -1, -1 >>, << -1, 0 >>, << -1, 1 >>, << 0, -1 >>, << 0, 1 >>,
              << 1, -1 >>, << 1, 0 >>, << 1, 1 >> >>

\* the list `neighbors` of cell (r, c), 1-based, read from grid g
RECURSIVE NeighborsFrom(_, _, _, _)
NeighborsFrom(g, r, c, k) ==
    IF k > Len(Offsets) THEN << >>
    ELSE LET nr == r + Offsets[k][1]
             nc == c + Offsets[k][2]
         IN  (IF 1 <= nr /\ nr <= Rows(g) /\ 1 <= nc /\ nc <= Cols(g)
              THEN << g[nr][nc] >> ELSE << >>)
             \o NeighborsFrom(g, r, c, k + 1)

Neighbors(g, r, c) == NeighborsFrom(g, r, c, 1)

\* variant: at least 4 agreeing neighbours suffice
ShouldReplace_AtLeast4(own, mode_color, mode_count) ==
    own # mode_color /\ mode_count >= 4

\* variant: at least 3 agreeing neighbours suffice
ShouldReplace_AtLeast3(own, mode_color, mode_count) ==
    own # mode_color /\ mode_count >= 3

\* `cells[r][c] != mode_color and mode_count >= 5`
ShouldReplace(own, mode_color, mode_count) ==
    own # mode_color /\ mode_count >= 5

\* variant: the count of the mode is written instead of its colour
DecideCell_WritesCount(g, r, c) ==
    LET neighbors == Neighbors(g, r, c)
    IN  IF Len(neighbors) < 3 THEN g[r][c]
        ELSE LET mode == most_common(Counter(neighbors), 1)[1]
             IN  IF ShouldReplace(g[r][c], mode[1], mode[2]) THEN mode[2]
                 ELSE g[r][c]

\* the value the loop body leaves in new_cells[r][c], reading grid g:
\* the cell's own value unless the mode of its neighbours replaces it
DecideCell(g, r, c) ==
    LET neighbors == Neighbors(g, r, c)
    IN  IF Len(neighbors) < 3 THEN g[r][c]
        ELSE LET mode == most_common(Counter(neighbors), 1)[1]
             IN  IF ShouldReplace(g[r][c], mode[1], mode[2]) THEN mode[1]
                 ELSE g[r][c]

\* variant: new_cells = cells, no copy: the pass writes into the grid it reads
NewCells_Alias(h, cells_id) == [id |-> cells_id, heap |-> h]

\* new_cells = [row[:] for row in cells]: a fresh object holding a copy
NewCells(h, cells_id) == [id |-> Len(h) + 1, heap |-> Append(h, h[cells_id])]

\* the raster loop from cell number k on: reads h[cells_id], writes h[new_id]
RECURSIVE RasterLoop(_, _, _, _)
RasterLoop(h, cells_id, new_id, k) ==
    LET rows == Rows(h[cells_id])
        cols == Cols(h[cells_id])
    IN  IF k > rows * cols THEN h
        ELSE LET r == ((k - 1) \div cols) + 1
                 c == ((k - 1) % cols) + 1
                 v == DecideCell(h[cells_id], r, c)
             IN  RasterLoop([h EXCEPT ![new_id][r][c] = v], cells_id, new_id, k + 1)

\* one iteration of `for _ in range(num_passes)`; the result names the object
\* `cells` refers to afterwards
OnePass(h, cells_id) ==
    LET nc == NewCells(h, cells_id)
    IN  [id |-> nc.id, heap |-> RasterLoop(nc.heap, cells_id, nc.id, 1)]

\* largest number of cells of an enumerated two-valued grid
MaxCells == 9

\* largest num_passes tried
MaxPasses == 2

GridsOver(vals, r, c) == [1..r -> [1..c -> vals]]

\* grids of the unit tests that exceed MaxCells
TwoColorBlocks == [r \in 1..3 |-> << 0, 0, 1, 1 >>]

PreservesEdges == [r \in 1..3 |-> << 0, 0, 0, 1, 1 >>]

CascadingConfetti ==
    << << 0, 0, 0, 0, 0 >>, << 0, 1, 0, 0, 0 >>, << 0, 0, 1, 0, 0 >>,
       << 0, 0, 0, 0, 0 >>, << 0, 0, 0, 0, 0 >> >>

MostCommonNeighbor == << << 2, 2, 2 >>, << 2, 1, 2 >>, << 2, 2, 2 >> >>

\* two-valued grids of at most MaxCells cells; of the one-row and one-column
\* grids, in which no cell has 3 neighbours, only those of up to 4 cells
ConfettiShapes ==
    { e \in (1..MaxCells) \X (1..MaxCells) :
        /\ e[1] * e[2] <= MaxCells
        /\ (e[1] >= 2 /\ e[2] >= 2) \/ e[1] * e[2] <= 4 }

ConfettiGrids ==
    UNION { GridsOver({0, 1}, d[1], d[2]) : d \in ConfettiShapes }
    \cup GridsOver({0, 1, 2}, 2, 3) \cup GridsOver({0, 1, 2}, 3, 2)
    \cup { TwoColorBlocks, PreservesEdges, CascadingConfetti, MostCommonNeighbor }

\* the caller's list is object 1; `cells` refers to it on entry
InitConfetti ==
    /\ caller_cells \in ConfettiGrids
    /\ heap = << caller_cells >>
    /\ cells = 1
    /\ pass_start = caller_cells
    /\ num_passes \in 0..MaxPasses
    /\ passes_done = 0
    /\ rc_pc = "loop"
    /\ SpIdle /\ FnIdle /\ DetIdle /\ CalcIdle /\ WfIdle /\ PjIdle /\ ThIdle

RC_Pass ==
    /\ rc_pc = "loop"
    /\ passes_done < num_passes
    /\ LET p == OnePass(heap, cells)
       IN  /\ heap' = p.heap
           /\ cells' = p.id
    /\ pass_start' = heap[cells]
    /\ passes_done' = passes_done + 1
    /\ UNCHANGED << caller_cells, num_passes, rc_pc >>
    /\ UNCHANGED << sp_vars, fn_vars, det_vars, calc_vars, wf_vars, pj_vars, th_vars >>

RC_Return ==
    /\ rc_pc = "loop"
    /\ passes_done = num_passes
    /\ rc_pc' = "done"
    /\ UNCHANGED << heap, cells, caller_cells, pass_start, num_passes, passes_done >>
    /\ UNCHANGED << sp_vars, fn_vars, det_vars, calc_vars, wf_vars, pj_vars, th_vars >>

NextConfetti ==
    \/ RC_Pass
    \/ RC_Return

SpecConfetti == InitConfetti /\ [][NextConfetti]_vars

(***************************************************************************)
(* DeterministicHeuristicImageModeDetector.detect                          *)
(***************************************************************************)
EDGE_THRESHOLD == 60

FLAT_THRESHOLD == 15

PIXEL_ART_MAX_COLORS == 64

DRAWING_MAX_COLORS == 1000

\* _DRAWING_MIN_EDGE_DENSITY = 0.3, as the fraction 3/10
DRAWING_MIN_EDGE_DENSITY == << 3, 10 >>

\* a float score is kept as the fraction << numerator, denominator >>
Zero == << 0, 1 >>

\* a / b of the source; dividing by zero raises
Divide(a, b) ==
    IF b = 0 THEN [error |-> "ZeroDivisionError", value |-> Zero]
    ELSE [error |-> "none", value |-> << a, b >>]

\* p > q for fractions with positive denominators
FracGreater(p, q) == p[1] * q[2] > q[1] * p[2]

\* d = abs(r - nr) + abs(g - ng) + abs(b - nb)
PairDiff(p, q) == Abs(p[1] - q[1]) + Abs(p[2] - q[2]) + Abs(p[3] - q[3])

Max(a, b) == IF a >= b THEN a ELSE b

\* variant: a pair differing by exactly the flat threshold counts as flat
PixelStats_FlatInclusive(px, y, x) ==
    LET hasRight == x + 1 <= Len(px[1])
        hasBelow == y + 1 <= Len(px)
        dRight == IF hasRight THEN PairDiff(px[y][x], px[y][x + 1]) ELSE 0
        dBelow == IF hasBelow THEN PairDiff(px[y][x], px[y + 1][x]) ELSE 0
        max_diff == Max(dRight, dBelow)
    IN  [diff  |-> dRight + dBelow,
         pairs |-> (IF hasRight THEN 1 ELSE 0) + (IF hasBelow THEN 1 ELSE 0),
         flat  |-> (IF hasRight /\ dRight <= FLAT_THRESHOLD THEN 1 ELSE 0)
                   + (IF hasBelow /\ dBelow <= FLAT_THRESHOLD THEN 1 ELSE 0),
         edge  |-> IF max_diff > EDGE_THRESHOLD THEN 1 ELSE 0]

\* the loop body for pixel (y, x), 1-based: what it adds to diff_sum,
\* total_pairs, flat_pairs and edge_count
PixelStats(px, y, x) ==
    LET hasRight == x + 1 <= Len(px[1])
        hasBelow == y + 1 <= Len(px)
        dRight == IF hasRight THEN PairDiff(px[y][x], px[y][x + 1]) ELSE 0
        dBelow == IF hasBelow THEN PairDiff(px[y][x], px[y + 1][x]) ELSE 0
        max_diff == Max(dRight, dBelow)
    IN  [diff  |-> dRight + dBelow,
         pairs |-> (IF hasRight THEN 1 ELSE 0) + (IF hasBelow THEN 1 ELSE 0),
         flat  |-> (IF hasRight /\ dRight < FLAT_THRESHOLD THEN 1 ELSE 0)
                   + (IF hasBelow /\ dBelow < FLAT_THRESHOLD THEN 1 ELSE 0),
         edge  |-> IF max_diff > EDGE_THRESHOLD THEN 1 ELSE 0]

AddStats(a, b) ==
    [diff |-> a.diff + b.diff, pairs |-> a.pairs + b.pairs,
     flat |-> a.flat + b.flat, edge |-> a.edge + b.edge]

NoStats == [diff |-> 0, pairs |-> 0, flat |-> 0, edge |-> 0]

\* the two nested loops over pixels number lo..hi in raster order (pixel k is
\* row (k-1) div width, column (k-1) mod width); the sums are associative,
\* so the range is split in halves to keep the evaluation shallow
RECURSIVE RasterStats(_, _, _)
RasterStats(px, lo, hi) ==
    IF lo > hi THEN NoStats
    ELSE IF lo = hi
    THEN PixelStats(px, ((lo - 1) \div Len(px[1])) + 1, ((lo - 1) % Len(px[1])) + 1)
    ELSE LET mid == (lo + hi) \div 2
         IN  AddStats(RasterStats(px, lo, mid), RasterStats(px, mid + 1, hi))

GridStats(px) == RasterStats(px, 1, Len(px) * Len(px[1]))

\* unique_colors: the set built by unique_colors.update(row) over all rows
UniqueColors(px) == UNION { Range(px[y]) : y \in 1..Len(px) }

\* variant: fewer than 64 colours required
IsPixelArt_Below64(unique_color_count) == unique_color_count < PIXEL_ART_MAX_COLORS

\* `unique_color_count <= _PIXEL_ART_MAX_COLORS`
IsPixelArt(unique_color_count) == unique_color_count <= PIXEL_ART_MAX_COLORS

\* `edge_density > _DRAWING_MIN_EDGE_DENSITY and unique_color_count < _DRAWING_MAX_COLORS`
IsDrawing(edge_density, unique_color_count) ==
    /\ FracGreater(edge_density, DRAWING_MIN_EDGE_DENSITY)
    /\ unique_color_count < DRAWING_MAX_COLORS

Classify(unique_color_count, edge_density) ==
    IF IsPixelArt(unique_color_count) THEN "pixel_art"
    ELSE IF IsDrawing(edge_density, unique_color_count) THEN "drawing"
    ELSE "photo"

Detection(mode, unique, edge_density, avg_neighbor_diff, flat_ratio) ==
    [raised |-> "none", mode |-> mode, unique_color_count |-> unique,
     edge_density |-> edge_density, avg_neighbor_diff |-> avg_neighbor_diff,
     flat_ratio |-> flat_ratio]

Raised(e) ==
    [raised |-> e, mode |-> "none", unique_color_count |-> 0,
     edge_density |-> Zero, avg_neighbor_diff |-> Zero, flat_ratio |-> Zero]

detect(px) ==
    LET height == Len(px)
        width == IF height > 0 THEN Len(px[1]) ELSE 0
    IN  IF height = 0 \/ width = 0
        THEN Detection("photo", 0, Zero, Zero, Zero)
        ELSE LET unique_color_count == Cardinality(UniqueColors(px))
                 st == GridStats(px)
                 total_pixels == height * width
                 edge_density == Divide(st.edge, total_pixels)
                 avg_neighbor_diff ==
                     IF st.pairs > 0 THEN Divide(st.diff, st.pairs)
                     ELSE [error |-> "none", value |-> Zero]
                 flat_ratio ==
                     IF st.pairs > 0 THEN Divide(st.flat, st.pairs)
                     ELSE [error |-> "none", value |-> Zero]
             IN  IF edge_density.error # "none" THEN Raised(edge_density.error)
                 ELSE IF avg_neighbor_diff.error # "none"
                      THEN Raised(avg_neighbor_diff.error)
                 ELSE IF flat_ratio.error # "none" THEN Raised(flat_ratio.error)
                 ELSE Detection(Classify(unique_color_count, edge_density.value),
                                unique_color_count, edge_density.value,
                                avg_neighbor_diff.value, flat_ratio.value)

\* Input images: a smooth two-channel gradient (R grows with x, G with y, as
\* in the unit tests' _gradient_pixels) in which the rows listed in `black`
\* are black lines (as in _drawing_pixels).  Rows and columns 0-based here.
GradientWithLines(h, w, black) ==
    [y \in 1..h |-> [x \in 1..w |->
        IF (y - 1) \in black THEN << 0, 0, 0 >>
        ELSE << (x - 1) * 5, (y - 1) * 5, 100 >>]]

EveryNth(h, n) == IF n = 0 THEN {} ELSE { y \in 0..(h - 1) : y % n = 0 }

DetSizes ==
    { << 1, 1 >>, << 1, 2 >>, << 2, 2 >>, << 3, 1 >>, << 8, 8 >>, << 5, 13 >>,
      << 13, 5 >>, << 12, 8 >>, << 14, 7 >>, << 10, 10 >>, << 16, 16 >>,
      << 32, 32 >>, << 40, 37 >>, << 41, 37 >>, << 44, 37 >> }

DetPeriods == {0, 2, 3, 4, 6, 7, 10}

\* a colour at distance d (sum of absolute channel differences) from black
AwayFromBlack(d) ==
    << d \div 3 + (IF d % 3 > 0 THEN 1 ELSE 0),
       d \div 3 + (IF d % 3 > 1 THEN 1 ELSE 0), d \div 3 >>

\* differences at and next to the flat and the edge threshold
ThresholdDiffs == {0, 14, 15, 16, 59, 60, 61, 765}

\* black next to, above, and next to and above colours at those distances
ThresholdGrids ==
    { << << << 0, 0, 0 >>, AwayFromBlack(d) >> >> : d \in ThresholdDiffs }
    \cup { << << << 0, 0, 0 >> >>, << AwayFromBlack(d) >> >> : d \in ThresholdDiffs }
    \cup { << << << 0, 0, 0 >>, AwayFromBlack(a) >>,
              << AwayFromBlack(b), AwayFromBlack(a) >> >> :
              a \in ThresholdDiffs, b \in ThresholdDiffs }

DetInputs ==
    { GradientWithLines(d[1], d[2], EveryNth(d[1], n)) : d \in DetSizes, n \in DetPeriods }
    \cup ThresholdGrids
    \cup { GradientWithLines(10, 8, {5, 9}), GradientWithLines(10, 8, {4, 9}),
           GradientWithLines(10, 8, {2, 5, 9}) }
    \cup { << >>, << << >> >>, << << >>, << >> >> }

InitDetect ==
    /\ det_pixels \in DetInputs
    /\ det_pc = "call"
    /\ det_result = << >>
    /\ SpIdle /\ FnIdle /\ RcIdle /\ CalcIdle /\ WfIdle /\ PjIdle /\ ThIdle

DET_Detect ==
    /\ det_pc = "call"
    /\ det_result' = detect(det_pixels)
    /\ det_pc' = "done"
    /\ UNCHANGED det_pixels
    /\ UNCHANGED << sp_vars, fn_vars, rc_vars, calc_vars, wf_vars, pj_vars, th_vars >>

NextDetect == DET_Detect

SpecDetect == InitDetect /\ [][NextDetect]_vars

(***************************************************************************)
(* The calculators.  Each is a pure function; a call either raises or      *)
(* returns a value.                                                        *)
(*                                                                         *)
(* Numbers.  Lengths in points are kept in hundredths of a point, a cell   *)
(* size in hundredths of a millimetre, _MM_TO_PT in ten-thousandths.  A    *)
(* float that is a multiple of 0.5 (the centre lines) is kept as its       *)
(* number of halves.  An Optional is a sequence: << >> for None, << v >>   *)
(* for a value.                                                            *)
(***************************************************************************)
CalcRaise(e) == [error |-> e, value |-> << >>]

CalcReturn(v) == [error |-> "none", value |-> v]

None == << >>

\* ---- pattern_tiling.py --------------------------------------------------
PAGE_W == 59528

PAGE_H == 84189

MARGIN == 5669

LABEL_MARGIN_LEFT == 2800

LABEL_MARGIN_TOP == 1400

FOOTER_HEIGHT == 1400

MM_TO_PT == 28346

MAX_CELL == 500

MIN_CELL == 300

\* int(available / cell_pt) with cell_pt = cell_mm * _MM_TO_PT:
\* (available/100) / (cell_mm/100 * MM_TO_PT/10^4)
cols_per_page(cell_mm) ==
    LET available == PAGE_W - 2 * MARGIN - LABEL_MARGIN_LEFT
    IN  (available * 10000) \div (cell_mm * MM_TO_PT)

\* variant: the footer height is not subtracted
rows_per_page_NoFooter(cell_mm) ==
    LET available == PAGE_H - 2 * MARGIN - LABEL_MARGIN_TOP
    IN  (available * 10000) \div (cell_mm * MM_TO_PT)

rows_per_page(cell_mm) ==
    LET available == PAGE_H - 2 * MARGIN - LABEL_MARGIN_TOP - FOOTER_HEIGHT
    IN  (available * 10000) \div (cell_mm * MM_TO_PT)

\* variant: floor division plus one
CeilDiv_FloorPlusOne(a, b) == (a \div b) + 1

\* math.ceil(a / b) for a >= 0 and b > 0
CeilDiv(a, b) == (a + b - 1) \div b

\* round(x, 2) of a value given in thousandths: the result in hundredths,
\* a tie going to the even hundredth
Round2(thousandths) ==
    LET q == thousandths \div 10
        r == thousandths % 10
    IN  IF r < 5 THEN q
        ELSE IF r > 5 THEN q + 1
        ELSE IF q % 2 = 0 THEN q ELSE q + 1

PagesAtMaxCell(grid_width, grid_height) ==
    CeilDiv(grid_width, cols_per_page(MAX_CELL))
        * CeilDiv(grid_height, rows_per_page(MAX_CELL))

\* variant: the interpolation runs over [4, 19] pages
Interpolate_Over15(pages) ==
    Round2(MAX_CELL * 10 - ((pages - 4) * (MAX_CELL - MIN_CELL) * 10) \div 15)

\* round(MAX_CELL - t * (MAX_CELL - MIN_CELL), 2) with t = (pages - 4) / 16;
\* the product is a multiple of 1/8 mm, so the thousandths are exact
Interpolate(pages) ==
    Round2(MAX_CELL * 10 - ((pages - 4) * (MAX_CELL - MIN_CELL) * 10) \div 16)

compute_cell_size_mm(a) ==
    LET pages == PagesAtMaxCell(a.grid_width, a.grid_height)
    IN  IF pages <= 4 THEN CalcReturn(MAX_CELL)
        ELSE IF pages >= 20 THEN CalcReturn(MIN_CELL)
        ELSE CalcReturn(Interpolate(pages))

\* variant: the end is not clamped to the grid
ClampEnd_NoClamp(start, per_page, limit) == start + per_page

\* min(start + per_page, limit)
ClampEnd(start, per_page, limit) == Min(start + per_page, limit)

\* variant: a centre on a tile boundary belongs to neither tile
HasCenter_Exclusive(start, center_halves, end) ==
    2 * start < center_halves /\ center_halves < 2 * end

\* variant: the centre belongs to the tile that starts at it
HasCenter_StartInclusive(start, center_halves, end) ==
    2 * start <= center_halves /\ center_halves < 2 * end

\* variant: the centre belongs to both tiles it touches
HasCenter_BothInclusive(start, center_halves, end) ==
    2 * start <= center_halves /\ center_halves <= 2 * end

\* start < center_global <= end
HasCenter(start, center_halves, end) ==
    2 * start < center_halves /\ center_halves <= 2 * end

\* c = center_global - start when the centre falls in the range, else None
CenterOffset(start, center_halves, end) ==
    IF HasCenter(start, center_halves, end)
    THEN << center_halves - 2 * start >>
    ELSE None

PageTile(page_index, col_start, col_end, row_start, row_end, c_col, c_row) ==
    [page_index |-> page_index, col_start |-> col_start, col_end |-> col_end,
     row_start |-> row_start, row_end |-> row_end,
     center_col |-> c_col, center_row |-> c_row]

\* the inner loop `for tc in range(num_tile_cols)` from tc on: the tiles it
\* appends, page_index counting up with each
RECURSIVE TileColsLoop(_, _, _, _, _, _)
TileColsLoop(a, num_tile_cols, row_start, row_end, tc, page_index) ==
    IF tc >= num_tile_cols THEN << >>
    ELSE LET col_start == tc * a.cols_per_page
             col_end == ClampEnd(col_start, a.cols_per_page, a.grid_width)
             c_col == CenterOffset(col_start, a.grid_width, col_end)
             c_row == CenterOffset(row_start, a.grid_height, row_end)
         IN  << PageTile(page_index, col_start, col_end, row_start, row_end,
                         c_col, c_row) >>
             \o TileColsLoop(a, num_tile_cols, row_start, row_end, tc + 1,
                             page_index + 1)

\* the outer loop `for tr in range(num_tile_rows)` from tr on
RECURSIVE TileRowsLoop(_, _, _, _, _)
TileRowsLoop(a, num_tile_rows, num_tile_cols, tr, page_index) ==
    IF tr >= num_tile_rows THEN << >>
    ELSE LET row_start == tr * a.rows_per_page
             row_end == ClampEnd(row_start, a.rows_per_page, a.grid_height)
             band == TileColsLoop(a, num_tile_cols, row_start, row_end, 0,
                                  page_index)
         IN  band \o TileRowsLoop(a, num_tile_rows, num_tile_cols, tr + 1,
                                  page_index + Len(band))

compute_tiles(a) ==
    IF a.grid_width <= 0 \/ a.grid_height <= 0 THEN CalcRaise("ValueError")
    ELSE IF a.cols_per_page <= 0 \/ a.rows_per_page <= 0
    THEN CalcRaise("ValueError")
    ELSE LET num_tile_cols == CeilDiv(a.grid_width, a.cols_per_page)
             num_tile_rows == CeilDiv(a.grid_height, a.rows_per_page)
             tiles == TileRowsLoop(a, num_tile_rows, num_tile_cols, 0, 0)
         IN  CalcReturn([tiles |-> tiles, total_pages |-> Len(tiles),
                         cols_per_page |-> a.cols_per_page,
                         rows_per_page |-> a.rows_per_page])

\* ---- stitch_count.py ----------------------------------------------------
\* tuple comparison of two (key, count) items
ItemLess(p, q) == p[1] < q[1] \/ (p[1] = q[1] /\ p[2] < q[2])

RECURSIVE InsertItem(_, _)
InsertItem(x, sorted) ==
    IF sorted = << >> THEN << x >>
    ELSE IF ItemLess(x, Head(sorted)) THEN << x >> \o sorted
    ELSE << Head(sorted) >> \o InsertItem(x, Tail(sorted))

\* variant: the items are left in insertion order
SortedItems_InsertionOrder(items) == items

\* sorted(counter.items())
RECURSIVE SortedItems(_)
SortedItems(items) ==
    IF items = << >> THEN << >>
    ELSE InsertItem(Head(items), SortedItems(Tail(items)))

ColorStitchCount(idx, cnt) == [palette_index |-> idx, count |-> cnt]

count_stitches_per_color(a) ==
    LET counter == Counter(Flatten(a.grid.cells))
        items == SortedItems(counter)
    IN  CalcReturn([i \in 1..Len(items) |->
                       ColorStitchCount(items[i][1], items[i][2])])

\* ---- floss.py -----------------------------------------------------------
\* SKEIN_LENGTH_M = 8.0
SKEIN_LENGTH_M == 8

STRANDS_PER_SKEIN == 6

\* THREAD_CONSTANT_CM = 19.6, in tenths
THREAD_CONSTANT_CM == 196

RECURSIVE Gcd(_, _)
Gcd(a, b) == IF b = 0 THEN a ELSE Gcd(b, a % b)

\* the real number n / d (d > 0) in lowest terms
Frac(n, d) == LET g == Gcd(Abs(n), d) IN IF g = 0 THEN << 0, 1 >> ELSE << n \div g, d \div g >>

\* p / q for fractions in lowest terms, q > 0
FracDiv(p, q) ==
    LET g1 == Gcd(Abs(p[1]), q[1])
        g2 == Gcd(q[2], p[2])
        n1 == IF g1 = 0 THEN 0 ELSE p[1] \div g1
        d1 == IF g1 = 0 THEN 1 ELSE q[1] \div g1
    IN  Frac(n1 * (q[2] \div g2), (p[2] \div g2) * d1)

\* math.ceil of a fraction with positive denominator
CeilFrac(p) == -((-p[1]) \div p[2])

\* thread_per_stitch_cm = THREAD_CONSTANT_CM / aida_count
thread_per_stitch_cm(aida_count) == Frac(THREAD_CONSTANT_CM, 10 * aida_count)

\* single_strand_per_skein_cm = SKEIN_LENGTH_M * 100 * STRANDS_PER_SKEIN / num_strands
single_strand_per_skein_cm(num_strands) ==
    Frac(SKEIN_LENGTH_M * 100 * STRANDS_PER_SKEIN, num_strands)

stitches_per_skein(aida_count, num_strands) ==
    FracDiv(single_strand_per_skein_cm(num_strands),
            thread_per_stitch_cm(aida_count))

\* The source divides in float64.  19.6 / 14 rounds to 1.4000000000000001,
\* so a quotient whose true value is a whole number can come out just above
\* it, and math.ceil then yields the next integer.  These are the inputs
\* << count, margin (percent), aida_count, num_strands >> of the model for
\* which the float64 quotient lies above its whole true value.
FloatQuotientAbove ==
    { << 10000, 20, 14, 6 >>, << 12000, 0, 14, 6 >>, << 20000, 0, 14, 6 >>,
      << 20000, 20, 14, 3 >>, << 20000, 20, 14, 6 >>, << 24000, 0, 14, 3 >>,
      << 24000, 0, 14, 6 >>, << 96000, 0, 14, 3 >>, << 96000, 0, 14, 6 >> }

\* ceil(stitches_with_margin / stitches_per_skein), with
\* stitches_with_margin = stitches * (1 + margin_ratio); `stitches` is a
\* fraction and margin_ratio is given in percent
SkeinsFor(stitches, margin_pct, aida_count, num_strands) ==
    LET stitches_with_margin ==
            Frac(stitches[1] * (100 + margin_pct), 100 * stitches[2])
        quotient == FracDiv(stitches_with_margin,
                            stitches_per_skein(aida_count, num_strands))
    IN  CeilFrac(quotient)
        + (IF stitches[2] = 1
              /\ << stitches[1], margin_pct, aida_count, num_strands >>
                    \in FloatQuotientAbove
           THEN 1 ELSE 0)

\* variant: num_strands = 6 is rejected
StrandsInRange_Below6(num_strands) == 1 <= num_strands /\ num_strands < 6

\* 1 <= num_strands <= 6
StrandsInRange(num_strands) == 1 <= num_strands /\ num_strands <= 6

\* the validation shared by both estimators: the error raised, or "none"
FlossParameterError(a) ==
    IF a.aida_count <= 0 THEN "InvalidFabricParametersError"
    ELSE IF ~StrandsInRange(a.num_strands) THEN "InvalidFabricParametersError"
    ELSE IF a.margin_ratio < 0 THEN "InvalidFabricParametersError"
    ELSE "none"

compute_floss_estimate(a) ==
    IF a.total_stitches <= 0 THEN CalcRaise("InvalidFabricParametersError")
    ELSE IF a.num_colors <= 0 THEN CalcRaise("InvalidFabricParametersError")
    ELSE IF FlossParameterError(a) # "none"
    THEN CalcRaise(FlossParameterError(a))
    ELSE LET stitches_per_color == Frac(a.total_stitches, a.num_colors)
             skeins_per_color == SkeinsFor(stitches_per_color, a.margin_ratio,
                                           a.aida_count, a.num_strands)
         IN  CalcReturn([total_stitches |-> a.total_stitches,
                         num_colors |-> a.num_colors,
                         skeins_per_color |-> skeins_per_color,
                         total_skeins |-> skeins_per_color * a.num_colors])

RECURSIVE InsertByIndex(_, _)
InsertByIndex(x, sorted) ==
    IF sorted = << >> THEN << x >>
    ELSE IF x.palette_index < Head(sorted).palette_index THEN << x >> \o sorted
    ELSE << Head(sorted) >> \o InsertByIndex(x, Tail(sorted))

\* variant: the entries are processed in the order given
SortedByIndex_AsGiven(cscs) == cscs

\* sorted(color_stitch_counts, key=lambda c: c.palette_index), stable
RECURSIVE SortedByIndex(_)
SortedByIndex(cscs) ==
    IF cscs = << >> THEN << >>
    ELSE InsertByIndex(cscs[Len(cscs)],
                       SortedByIndex(SubSeq(cscs, 1, Len(cscs) - 1)))

ColorFlossEstimate(csc, skeins) ==
    [palette_index |-> csc.palette_index, stitch_count |-> csc.count,
     skeins |-> skeins]

compute_per_color_floss(a) ==
    IF FlossParameterError(a) # "none" THEN CalcRaise(FlossParameterError(a))
    ELSE LET ordered == SortedByIndex(a.color_stitch_counts)
         IN  CalcReturn([i \in 1..Len(ordered) |->
                 ColorFlossEstimate(ordered[i],
                     SkeinsFor(<< ordered[i].count, 1 >>, a.margin_ratio,
                               a.aida_count, a.num_strands))])

\* ---- fabric.py ----------------------------------------------------------
\* inches * 2.54 + 2 * margin_cm, margin_cm a whole number of centimetres
SizeCm(stitches, aida_count, margin_cm) ==
    Frac(stitches * 254 + 2 * margin_cm * 100 * aida_count, 100 * aida_count)

compute_fabric_size_cm(a) ==
    IF a.stitches_w <= 0 \/ a.stitches_h <= 0
    THEN CalcRaise("InvalidFabricParametersError")
    ELSE IF a.aida_count <= 0 THEN CalcRaise("InvalidFabricParametersError")
    ELSE IF a.margin_cm < 0 THEN CalcRaise("InvalidFabricParametersError")
    ELSE CalcReturn([width_cm |-> SizeCm(a.stitches_w, a.aida_count, a.margin_cm),
                     height_cm |-> SizeCm(a.stitches_h, a.aida_count, a.margin_cm)])

(***************************************************************************)
(* Bounds and inputs of the calculators' specification                     *)
(***************************************************************************)
\* largest grid width and height given to compute_tiles
MaxGrid == 6

\* largest page capacity given to compute_tiles
MaxPerPage == 3

\* largest number of page bands across given to compute_cell_size_mm
MaxBands == 20

\* largest number of entries given to compute_per_color_floss
MaxEntries == 2

\* the calls of TestComputeTilesLargePattern and TestComputeTilesExactFit
TilesTestArgs ==
    { [grid_width |-> 60, grid_height |-> 45, cols_per_page |-> 32, rows_per_page |-> 49],
      [grid_width |-> 32, grid_height |-> 49, cols_per_page |-> 32, rows_per_page |-> 49],
      [grid_width |-> 33, grid_height |-> 49, cols_per_page |-> 32, rows_per_page |-> 49],
      [grid_width |-> 32, grid_height |-> 50, cols_per_page |-> 32, rows_per_page |-> 49],
      [grid_width |-> 100, grid_height |-> 100, cols_per_page |-> 32, rows_per_page |-> 49] }

TilesArgs ==
    [grid_width : -1..MaxGrid, grid_height : -1..MaxGrid,
     cols_per_page : -1..MaxPerPage, rows_per_page : -1..MaxPerPage]
    \cup TilesTestArgs

\* widths and heights at both sides of every page boundary at 5 mm cells
BandWidths ==
    { k * cols_per_page(MAX_CELL) + d : k \in 0..MaxBands, d \in {0, 1} } \ {0}

BandHeights ==
    ({ k * rows_per_page(MAX_CELL) + d : k \in 0..5, d \in {0, 1} } \ {0})
    \cup { 20 * rows_per_page(MAX_CELL), 20 * rows_per_page(MAX_CELL) + 1 }

CellSizeArgs == [grid_width : BandWidths, grid_height : BandHeights]

\* PatternGrid objects: width * height cells of palette indices
StitchGrids ==
    UNION { { [width |-> hw[2], height |-> hw[1], cells |-> c] :
                c \in [1..hw[1] -> [1..hw[2] -> 0..(MaxColors - 1)]] } :
            hw \in { d \in (1..MaxPixels) \X (1..MaxPixels) :
                        d[1] * d[2] <= MaxPixels } }

StitchArgs == [grid : StitchGrids]

\* aida_count, num_strands, margin_ratio (percent): the valid combinations
\* and combinations with one or several invalid values
FlossParams ==
    ({14, 18} \X {1, 3, 6} \X {0, 20})
    \cup { << 0, 2, 20 >>, << -1, 2, 20 >>, << 14, 0, 20 >>, << 14, 7, 20 >>,
           << 14, 2, -10 >>, << 0, 0, -10 >>, << 14, 7, -10 >>, << 0, 7, 20 >> }

FlossCounts == {0, 1, 1429, 20000, 24000}

\* lists of ColorStitchCount with distinct palette indices, in any order
StitchCountLists ==
    UNION { { s \in [1..n -> { ColorStitchCount(i, c) :
                                  i \in 0..MaxEntries, c \in FlossCounts }] :
                \A j, k \in 1..n : j # k => s[j].palette_index # s[k].palette_index } :
            n \in 0..MaxEntries }

PerColorFlossArgs ==
    { [color_stitch_counts |-> l, aida_count |-> p[1], num_strands |-> p[2],
       margin_ratio |-> p[3]] : l \in StitchCountLists, p \in FlossParams }

\* total_stitches is a multiple of num_colors in every valid call
FlossEstimateArgs ==
    { [total_stitches |-> t, num_colors |-> n, aida_count |-> p[1],
       num_strands |-> p[2], margin_ratio |-> p[3]] :
      t \in {-1, 0, 14000, 24000, 96000}, n \in {-1, 0, 1, 4, 8},
      p \in FlossParams }

FabricArgs ==
    [stitches_w : {-1, 0, 1, 140}, stitches_h : {-1, 0, 1, 140},
     aida_count : {-1, 0, 14}, margin_cm : {-1, 0, 5}]

\* the cell sizes compute_cell_size_mm can return: 3.00 to 5.00 mm
CapacityArgs == [cell_mm : MIN_CELL..MAX_CELL]

InitCalc ==
    /\ \/ calc_fn = "compute_tiles" /\ calc_args \in TilesArgs
       \/ calc_fn = "page_capacity" /\ calc_args \in CapacityArgs
       \/ calc_fn = "compute_cell_size_mm" /\ calc_args \in CellSizeArgs
       \/ calc_fn = "count_stitches_per_color" /\ calc_args \in StitchArgs
       \/ calc_fn = "compute_per_color_floss" /\ calc_args \in PerColorFlossArgs
       \/ calc_fn = "compute_floss_estimate" /\ calc_args \in FlossEstimateArgs
       \/ calc_fn = "compute_fabric_size_cm" /\ calc_args \in FabricArgs
    /\ calc_pc = "call"
    /\ calc_result = << >>
    /\ SpIdle /\ FnIdle /\ RcIdle /\ DetIdle /\ WfIdle /\ PjIdle /\ ThIdle

CalcStep(fn, result) ==
    /\ calc_fn = fn
    /\ calc_pc = "call"
    /\ calc_result' = result
    /\ calc_pc' = "done"
    /\ UNCHANGED << calc_fn, calc_args >>
    /\ UNCHANGED << sp_vars, fn_vars, rc_vars, det_vars, wf_vars, pj_vars, th_vars >>

CALC_ComputeTiles == CalcStep("compute_tiles", compute_tiles(calc_args))

CALC_ComputeCellSize ==
    CalcStep("compute_cell_size_mm", compute_cell_size_mm(calc_args))

CALC_CountStitches ==
    CalcStep("count_stitches_per_color", count_stitches_per_color(calc_args))

CALC_PerColorFloss ==
    CalcStep("compute_per_color_floss", compute_per_color_floss(calc_args))

CALC_FlossEstimate ==
    CalcStep("compute_floss_estimate", compute_floss_estimate(calc_args))

CALC_FabricSize ==
    CalcStep("compute_fabric_size_cm", compute_fabric_size_cm(calc_args))

\* cols_per_page(cell_size_mm) and rows_per_page(cell_size_mm), as the
\* workflow calls them for compute_tiles
CALC_PageCapacity ==
    CalcStep("page_capacity",
             CalcReturn([cols_per_page |-> cols_per_page(calc_args.cell_mm),
                         rows_per_page |-> rows_per_page(calc_args.cell_mm)]))

NextCalc ==
    \/ CALC_ComputeTiles
    \/ CALC_PageCapacity
    \/ CALC_ComputeCellSize
    \/ CALC_CountStitches
    \/ CALC_PerColorFloss
    \/ CALC_FlossEstimate
    \/ CALC_FabricSize

SpecCalc == InitCalc /\ [][NextCalc]_vars

(***************************************************************************)
(* The orchestrating entry points: ConvertImageToPattern.execute,          *)
(* run_pattern_workflow (the pipeline of CompleteExistingProject) and      *)
(* CreateCompletePattern.execute.                                          *)
(*                                                                         *)
(* The ports (image resizer, repositories, file storage, PDF exporter) are *)
(* external collaborators.  Every call to a port or to a domain service is *)
(* appended to wf_calls as [fn, args].  A pixel grid that the resizer      *)
(* returned is referred to by a handle [image, width, height, resampling]; *)
(* ResizerOutput gives its contents.                                       *)
(***************************************************************************)
E_Convert == "ConvertImageToPattern.execute"

E_Workflow == "run_pattern_workflow"

E_Create == "CreateCompletePattern.execute"

\* reduce_confetti(cells, num_passes): the loop of passes, then `return cells`
RECURSIVE PassLoop(_, _, _)
PassLoop(h, cells_id, remaining) ==
    IF remaining = 0 THEN h[cells_id]
    ELSE LET p == OnePass(h, cells_id)
         IN  PassLoop(p.heap, p.id, remaining - 1)

reduce_confetti(grid, passes) == PassLoop(<< grid >>, 1, passes)

\* select_palette(pixels, num_colors, min_frequency_pct): steps 1 to 6
select_palette(px, n, pct) ==
    LET flat == MatchPixels(px)
        freq == ApplyThreshold(Counter(flat), Height(px) * Width(px), pct)
        top == SelectTop(freq, n)
        selected_lab == SelectedLab(top)
        dmc_list == DmcList(top)
        palette == PaletteOf(dmc_list)
    IN  IF selected_lab.error # "none" THEN RaisedValueError
        ELSE IF palette.error # "none" THEN RaisedValueError
        ELSE [status |-> "ok",
              palette |-> palette.colors,
              index_grid |-> IndexGrid(RemapTable(top, flat, selected_lab.lab),
                                       flat, Height(px), Width(px)),
              dmc_list |-> dmc_list]

\* default of reduce_confetti's num_passes
DEFAULT_NUM_PASSES == 2

\* default of select_palette's min_frequency_pct (1.0 percent)
DEFAULT_MIN_FREQUENCY_PCT == 1

\* side of the thumbnail given to the mode detector
THUMBNAIL_SIZE == 64

\* _RESAMPLING_FOR_MODE.get(mode, "lanczos")
RESAMPLING_FOR_MODE(mode) ==
    CASE mode = "pixel_art" -> "nearest"
      [] mode = "drawing" -> "bilinear"
      [] mode = "photo" -> "lanczos"
      [] OTHER -> "lanczos"

\* variant: the request's threshold is used for every mode
MinFreqFor_AlwaysRequest(mode, request_pct) == request_pct

\* min_freq = 0.0 if mode == "pixel_art" else request.min_frequency_pct
MinFreqFor(mode, request_pct) == IF mode = "pixel_art" THEN 0 ELSE request_pct

\* variant: confetti reduction runs for every mode
ConfettiApplies_Always(mode) == TRUE

\* if mode != "pixel_art": index_grid = reduce_confetti(index_grid)
ConfettiApplies(mode) == mode # "pixel_art"

\* if mode == "auto": thumbnail = load_and_resize(..., 64, 64, "nearest")
DetectsOnThumbnail(processing_mode) == processing_mode = "auto"

\* ---- the images behind request.image_data, as the resizer renders them --
ImageNames == {"mosaic", "gradient", "line_drawing"}

MosaicColors ==
    << << 0, 0, 0 >>, << 255, 255, 255 >>, << 255, 0, 0 >>, << 0, 0, 255 >> >>

\* what load_and_resize(image, 64, 64, "nearest") returns: a four-colour
\* block mosaic, a smooth two-channel gradient, a gradient crossed by a
\* black line on every third row
Thumbnail(image) ==
    [y \in 1..THUMBNAIL_SIZE |-> [x \in 1..THUMBNAIL_SIZE |->
        CASE image = "mosaic" ->
                MosaicColors[((x - 1) \div 32) + 2 * ((y - 1) \div 32) + 1]
          [] image = "gradient" ->
                << ((x - 1) * 255) \div 63, ((y - 1) * 200) \div 63, 100 >>
          [] OTHER ->
                IF (y - 1) % 3 = 0 THEN << 0, 0, 0 >>
                ELSE << 180 + (x - 1) \div 4, 160 + (y - 1) \div 4, 120 >>]]

\* the image at 3 x 3: the mosaic is black with one white stitch in the
\* middle, the gradient runs from black to white with a red corner, the
\* line drawing has a white row between two black rows
BasePixels(image) ==
    CASE image = "mosaic" ->
            << << << 0, 0, 0 >>, << 0, 0, 0 >>, << 0, 0, 0 >> >>,
               << << 0, 0, 0 >>, << 255, 255, 255 >>, << 0, 0, 0 >> >>,
               << << 0, 0, 0 >>, << 0, 0, 0 >>, << 0, 0, 0 >> >> >>
      [] image = "gradient" ->
            << << << 0, 0, 0 >>, << 10, 10, 10 >>, << 255, 255, 255 >> >>,
               << << 10, 10, 10 >>, << 255, 255, 255 >>, << 255, 255, 255 >> >>,
               << << 255, 255, 255 >>, << 255, 255, 255 >>, << 255, 0, 0 >> >> >>
      [] OTHER ->
            << << << 0, 0, 0 >>, << 0, 0, 0 >>, << 0, 0, 0 >> >>,
               << << 255, 255, 255 >>, << 255, 0, 0 >>, << 255, 255, 255 >> >>,
               << << 0, 0, 0 >>, << 0, 0, 0 >>, << 0, 0, 0 >> >> >>

\* get_image_size: (width, height) of the stored image
ImageSize(image) == << 3, 3 >>

Handle(image, width, height, resampling) ==
    [image |-> image, width |-> width, height |-> height,
     resampling |-> resampling]

\* load_and_resize: a grid of `height` rows of `width` pixels
ResizerOutput(h) ==
    IF h.width = THUMBNAIL_SIZE /\ h.height = THUMBNAIL_SIZE
    THEN Thumbnail(h.image)
    ELSE [y \in 1..h.height |-> [x \in 1..h.width |->
            BasePixels(h.image)[((y - 1) % 3) + 1][((x - 1) % 3) + 1]]]

Call(fn, args) == [fn |-> fn, args |-> args]

\* PatternGrid.__post_init__
PatternGridError(width, height, grid) ==
    IF width <= 0 \/ height <= 0 THEN "ValueError"
    ELSE IF Len(grid) # height THEN "ValueError"
    ELSE IF \E y \in 1..Len(grid) : Len(grid[y]) # width THEN "ValueError"
    ELSE "none"

\* what an entry point produced: the exception that left it, or its result
\* object (status "ok"); "pending" while the Pattern is built but the entry
\* point has not returned
WfRaised(e) ==
    [status |-> e, pattern |-> << >>, dmc_colors |-> << >>,
     legend_entries |-> << >>]

WfOutcome(status, pattern, dmc_colors, legend_entries) ==
    [status |-> status, pattern |-> pattern, dmc_colors |-> dmc_colors,
     legend_entries |-> legend_entries]

\* default of compute_per_color_floss's margin_ratio (0.2), in percent
DEFAULT_MARGIN_RATIO == 20

\* assign_symbols(n): one symbol per palette index, here the index itself
assign_symbols(n) == [i \in 1..n |-> i - 1]

\* the legend loop: dmc_colors[f.palette_index] and symbols[f.palette_index]
\* raise IndexError for an index outside the list
LegendEntries(floss, dmc_colors, symbols) ==
    IF \E i \in 1..Len(floss) :
          floss[i].palette_index + 1 \notin 1..Len(dmc_colors)
    THEN CalcRaise("IndexError")
    ELSE CalcReturn([i \in 1..Len(floss) |->
            [symbol |-> symbols[floss[i].palette_index + 1],
             dmc_number |-> dmc_colors[floss[i].palette_index + 1].number,
             stitch_count |-> floss[i].stitch_count,
             skeins |-> floss[i].skeins]])

\* the port calls of the processing steps; in the executions of the project
\* use cases each may raise (pj_faults)
RESIZE == "image_resizer.load_and_resize"

RENDER == "pdf_exporter.render"

SAVE_SOURCE == "file_storage.save_source_image"

SAVE_PDF == "file_storage.save_pdf"

ADD_RESULT == "pattern_result_repo.add"

MARK_COMPLETED == "project_repo.update_status(COMPLETED)"

\* the exception a failing port call raises
FaultException(point) ==
    CASE point = RESIZE -> "RuntimeError"
      [] point = RENDER -> "Exception"
      [] point \in {SAVE_SOURCE, SAVE_PDF} -> "OSError"
      [] OTHER -> "SQLAlchemyError"

\* `a or b` on an Optional int: None and 0 are falsy
OrElse(opt, other) == IF opt = None \/ opt = << 0 >> THEN other ELSE opt[1]

ProcessingModes == {"auto", "photo", "drawing", "pixel_art"}

\* min_frequency_pct values of the requests, in percent
RequestPcts == {1, 15}

ConvertTargets ==
    { << None, None >>, << << 3 >>, << 3 >> >>, << << 2 >>, None >>,
      << << 3 >>, << 2 >> >> }

WorkflowTargets == { << 3, 3 >>, << 2, 3 >> }

ConvertRequests ==
    { [image_data |-> i, num_colors |-> n, target_width |-> t[1],
       target_height |-> t[2], min_frequency_pct |-> p, processing_mode |-> m] :
      i \in ImageNames, n \in 1..2, t \in ConvertTargets, p \in RequestPcts,
      m \in ProcessingModes }

WorkflowRequests ==
    { [image_data |-> i, num_colors |-> n, target_width |-> t[1],
       target_height |-> t[2], min_frequency_pct |-> p, aida_count |-> 14,
       num_strands |-> 2, margin_cm |-> 5, variant |-> "color",
       processing_mode |-> m] :
      i \in ImageNames, n \in 1..2, t \in WorkflowTargets, p \in RequestPcts,
      m \in ProcessingModes }

CreateRequests ==
    { [name |-> "Test", image_data |-> i, image_filename |-> "photo.jpg",
       num_colors |-> n, target_width |-> t[1], target_height |-> t[2],
       aida_count |-> 14, num_strands |-> 2, margin_cm |-> 5,
       variant |-> "color"] :
      i \in ImageNames, n \in 1..2, t \in ConvertTargets }

InitWorkflow ==
    /\ \/ wf_entry = E_Convert /\ wf_request \in ConvertRequests
          /\ wf_pc = "target" /\ wf_target = << >>
       \/ wf_entry = E_Workflow /\ wf_request \in WorkflowRequests
          /\ wf_pc = "mode"
          /\ wf_target = << wf_request.target_width, wf_request.target_height >>
       \/ wf_entry = E_Create /\ wf_request \in CreateRequests
          /\ wf_pc = "target" /\ wf_target = << >>
    /\ wf_image = wf_request.image_data
    /\ wf_mode = "none"
    /\ wf_pixels = << >> /\ wf_selected = << >> /\ wf_index_grid = << >>
    /\ wf_calls = << >> /\ wf_result = << >>
    /\ SpIdle /\ FnIdle /\ RcIdle /\ DetIdle /\ CalcIdle /\ PjIdle /\ ThIdle

WfOthersUnchanged ==
    UNCHANGED << sp_vars, fn_vars, rc_vars, det_vars, calc_vars, pj_vars,
                 th_vars >>

\* Target dimensions: the request's, or the image's own where the request
\* has none.  ConvertImageToPattern asks the resizer port for the size;
\* CreateCompletePattern opens the image itself.
Flow_ResolveTarget ==
    /\ wf_pc = "target"
    /\ LET size == ImageSize(wf_image)
           missing == wf_request.target_width = None
                         \/ wf_request.target_height = None
       IN  IF wf_entry = E_Convert
           THEN /\ wf_target' =
                      IF missing
                      THEN << OrElse(wf_request.target_width, size[1]),
                              OrElse(wf_request.target_height, size[2]) >>
                      ELSE << wf_request.target_width[1],
                              wf_request.target_height[1] >>
                /\ wf_calls' =
                      IF missing
                      THEN Append(wf_calls,
                                  Call("image_resizer.get_image_size", << >>))
                      ELSE wf_calls
                /\ wf_pc' = "mode"
           ELSE /\ wf_target' =
                      << IF wf_request.target_width = None THEN size[1]
                         ELSE wf_request.target_width[1],
                         IF wf_request.target_height = None THEN size[2]
                         ELSE wf_request.target_height[1] >>
                /\ UNCHANGED wf_calls
                /\ wf_pc' = "add_project"
    /\ UNCHANGED << wf_entry, wf_request, wf_image, wf_mode, wf_pixels,
                    wf_selected, wf_index_grid, wf_result >>
    /\ WfOthersUnchanged

\* CreateCompletePattern steps 1 to 3: add the project, save the source
\* image and its reference, mark the project IN_PROGRESS
CCP_CreateProject ==
    /\ wf_pc = "add_project"
    /\ wf_calls' = wf_calls \o
          << Call("project_repo.add", [status |-> "CREATED"]),
             Call("file_storage.save_source_image", [extension |-> ".jpg"]),
             Call("project_repo.update_source_image_ref", << >>),
             Call("project_repo.update_status", [status |-> "IN_PROGRESS"]) >>
    /\ wf_pc' = "resize"
    /\ UNCHANGED << wf_entry, wf_request, wf_image, wf_target, wf_mode,
                    wf_pixels, wf_selected, wf_index_grid, wf_result >>
    /\ WfOthersUnchanged

\* "Determine effective processing mode": the request's, or under auto the
\* mode detected on a 64 x 64 nearest-neighbour thumbnail
Flow_DetermineMode ==
    /\ wf_pc = "mode"
    /\ IF DetectsOnThumbnail(wf_request.processing_mode)
       THEN LET thumbnail == Handle(wf_image, THUMBNAIL_SIZE, THUMBNAIL_SIZE,
                                    "nearest")
            IN  IF RESIZE \in pj_faults
                THEN /\ wf_calls' = Append(wf_calls, Call(RESIZE, thumbnail))
                     /\ wf_result' = WfRaised(FaultException(RESIZE))
                     /\ wf_pc' = "done"
                     /\ UNCHANGED wf_mode
                ELSE /\ wf_mode' = detect(ResizerOutput(thumbnail)).mode
                     /\ wf_calls' = wf_calls \o
                           << Call(RESIZE, thumbnail),
                              Call("mode_detector.detect",
                                   [pixels |-> thumbnail]) >>
                     /\ wf_pc' = "resize"
                     /\ UNCHANGED wf_result
       ELSE /\ wf_mode' = wf_request.processing_mode
            /\ wf_pc' = "resize"
            /\ UNCHANGED << wf_calls, wf_result >>
    /\ UNCHANGED << wf_entry, wf_request, wf_image, wf_target, wf_pixels,
                    wf_selected, wf_index_grid >>
    /\ WfOthersUnchanged

\* the resize to the target dimensions; CreateCompletePattern passes no
\* resampling argument
Flow_Resize ==
    /\ wf_pc = "resize"
    /\ LET resampling == IF wf_entry = E_Create THEN "(default)"
                         ELSE RESAMPLING_FOR_MODE(wf_mode)
           h == Handle(wf_image, wf_target[1], wf_target[2], resampling)
       IN  /\ wf_calls' = Append(wf_calls, Call(RESIZE, h))
           /\ IF RESIZE \in pj_faults
              THEN /\ wf_result' = WfRaised(FaultException(RESIZE))
                   /\ wf_pc' = "done"
                   /\ UNCHANGED wf_pixels
              ELSE /\ wf_pixels' = h
                   /\ wf_pc' = "palette"
                   /\ UNCHANGED wf_result
    /\ UNCHANGED << wf_entry, wf_request, wf_image, wf_target, wf_mode,
                    wf_selected, wf_index_grid >>
    /\ WfOthersUnchanged

\* select_palette; its ValueError leaves the entry point
Flow_SelectPalette ==
    /\ wf_pc = "palette"
    /\ LET min_freq == IF wf_entry = E_Create THEN DEFAULT_MIN_FREQUENCY_PCT
                       ELSE MinFreqFor(wf_mode, wf_request.min_frequency_pct)
           selected == select_palette(ResizerOutput(wf_pixels),
                                      wf_request.num_colors, min_freq)
       IN  /\ wf_calls' = Append(wf_calls,
                 Call("select_palette",
                      [pixels |-> wf_pixels,
                       num_colors |-> wf_request.num_colors,
                       min_frequency_pct |-> min_freq]))
           /\ wf_selected' = selected
           /\ IF selected.status # "ok"
              THEN /\ wf_result' = WfRaised(selected.status)
                   /\ wf_pc' = "done"
                   /\ UNCHANGED wf_index_grid
              ELSE /\ wf_index_grid' = selected.index_grid
                   /\ wf_pc' = "confetti"
                   /\ UNCHANGED wf_result
    /\ UNCHANGED << wf_entry, wf_request, wf_image, wf_target, wf_mode,
                    wf_pixels >>
    /\ WfOthersUnchanged

\* reduce_confetti with its default passes; skipped for pixel art by
\* ConvertImageToPattern and run_pattern_workflow, never by
\* CreateCompletePattern
Flow_ReduceConfetti ==
    /\ wf_pc = "confetti"
    /\ IF wf_entry = E_Create \/ ConfettiApplies(wf_mode)
       THEN /\ wf_index_grid' = reduce_confetti(wf_index_grid, DEFAULT_NUM_PASSES)
            /\ wf_calls' = Append(wf_calls,
                  Call("reduce_confetti", [cells |-> wf_index_grid]))
       ELSE UNCHANGED << wf_index_grid, wf_calls >>
    /\ wf_pc' = "build"
    /\ UNCHANGED << wf_entry, wf_request, wf_image, wf_target, wf_mode,
                    wf_pixels, wf_selected, wf_result >>
    /\ WfOthersUnchanged

\* PatternGrid(width, height, cells) and Pattern(grid, palette);
\* ConvertImageToPattern returns here
Flow_BuildPattern ==
    /\ wf_pc = "build"
    /\ LET err == PatternGridError(wf_target[1], wf_target[2], wf_index_grid)
           pattern == [grid |-> [width |-> wf_target[1], height |-> wf_target[2],
                                 cells |-> wf_index_grid],
                       palette |-> [colors |-> wf_selected.palette]]
       IN  IF err # "none"
           THEN wf_result' = WfRaised(err) /\ wf_pc' = "done"
           ELSE IF wf_entry = E_Convert
           THEN /\ wf_result' = WfOutcome("ok", pattern, wf_selected.dmc_list, << >>)
                /\ wf_pc' = "done"
           ELSE /\ wf_result' = WfOutcome("pending", pattern,
                                          wf_selected.dmc_list, << >>)
                /\ wf_pc' = "export"
    /\ UNCHANGED << wf_entry, wf_request, wf_image, wf_target, wf_mode,
                    wf_pixels, wf_selected, wf_index_grid, wf_calls >>
    /\ WfOthersUnchanged

\* fabric size, stitch counts, symbols, floss, legend, cell size, tiling and
\* the PDF rendering; run_pattern_workflow returns here
Flow_Export ==
    /\ wf_pc = "export"
    /\ LET pattern == wf_result.pattern
           fabric_size == compute_fabric_size_cm(
               [stitches_w |-> pattern.grid.width,
                stitches_h |-> pattern.grid.height,
                aida_count |-> wf_request.aida_count,
                margin_cm |-> wf_request.margin_cm])
           stitch_counts == count_stitches_per_color([grid |-> pattern.grid])
           symbols == assign_symbols(Len(pattern.palette.colors))
           floss == compute_per_color_floss(
               [color_stitch_counts |-> stitch_counts.value,
                aida_count |-> wf_request.aida_count,
                num_strands |-> wf_request.num_strands,
                margin_ratio |-> DEFAULT_MARGIN_RATIO])
           legend == IF floss.error # "none" THEN floss
                     ELSE LegendEntries(floss.value, wf_result.dmc_colors, symbols)
           size_args == [grid_width |-> pattern.grid.width,
                         grid_height |-> pattern.grid.height]
           cell_size_mm == compute_cell_size_mm(size_args).value
           tiling == compute_tiles(
               [grid_width |-> pattern.grid.width,
                grid_height |-> pattern.grid.height,
                cols_per_page |-> cols_per_page(cell_size_mm),
                rows_per_page |-> rows_per_page(cell_size_mm)])
           failed == IF fabric_size.error # "none" THEN fabric_size.error
                     ELSE IF legend.error # "none" THEN legend.error
                     ELSE IF tiling.error # "none" THEN tiling.error
                     ELSE IF RENDER \in pj_faults THEN FaultException(RENDER)
                     ELSE "none"
       IN  IF failed # "none"
           THEN /\ wf_result' = WfRaised(failed)
                /\ wf_pc' = "done"
                /\ UNCHANGED wf_calls
           ELSE /\ wf_calls' = wf_calls \o
                      << Call("compute_fabric_size_cm", fabric_size.value),
                         Call("count_stitches_per_color", stitch_counts.value),
                         Call("assign_symbols", Len(pattern.palette.colors)),
                         Call("compute_per_color_floss", floss.value),
                         Call("compute_cell_size_mm", cell_size_mm),
                         Call("compute_tiles", tiling.value),
                         Call(RENDER,
                              [legend_entries |-> legend.value,
                               variant |-> wf_request.variant,
                               tiles |-> tiling.value.tiles,
                               cell_size_mm |-> cell_size_mm]) >>
                /\ IF wf_entry = E_Workflow
                   THEN /\ wf_result' = WfOutcome("ok", pattern,
                                                  wf_result.dmc_colors, legend.value)
                        /\ wf_pc' = "done"
                   ELSE /\ wf_result' = WfOutcome("pending", pattern,
                                                  wf_result.dmc_colors, legend.value)
                        /\ wf_pc' = "save"
    /\ UNCHANGED << wf_entry, wf_request, wf_image, wf_target, wf_mode,
                    wf_pixels, wf_selected, wf_index_grid >>
    /\ WfOthersUnchanged

\* CreateCompletePattern steps 6 to 9: save the PDF and the PatternResult,
\* mark the project COMPLETED, return
CCP_SaveAndComplete ==
    /\ wf_pc = "save"
    /\ wf_calls' = wf_calls \o
          << Call("file_storage.save_pdf", [filename |-> "pattern.pdf"]),
             Call("pattern_result_repo.add",
                  [grid_width |-> wf_result.pattern.grid.width,
                   grid_height |-> wf_result.pattern.grid.height]),
             Call("project_repo.update_status", [status |-> "COMPLETED"]) >>
    /\ wf_result' = [wf_result EXCEPT !.status = "ok"]
    /\ wf_pc' = "done"
    /\ UNCHANGED << wf_entry, wf_request, wf_image, wf_target, wf_mode,
                    wf_pixels, wf_selected, wf_index_grid >>
    /\ WfOthersUnchanged

NextWorkflow ==
    \/ Flow_ResolveTarget
    \/ CCP_CreateProject
    \/ Flow_DetermineMode
    \/ Flow_Resize
    \/ Flow_SelectPalette
    \/ Flow_ReduceConfetti
    \/ Flow_BuildPattern
    \/ Flow_Export
    \/ CCP_SaveAndComplete

SpecWorkflow == InitWorkflow /\ [][NextWorkflow]_vars

(***************************************************************************)
(* The project use cases: CompleteExistingProject and                      *)
(* CreateCompletePattern with the project repository, the pattern result   *)
(* repository and the file storage they write to                           *)
(***************************************************************************)
E_Complete == "CompleteExistingProject.execute"

\* ProjectStatus
CREATED == "CREATED"

IN_PROGRESS == "IN_PROGRESS"

COMPLETED == "COMPLETED"

FAILED == "FAILED"

\* how execute stands: "running", "raising" while an exception travels to
\* the except clause, "raised" and "returned" when execute has ended
Outcome(status, exception) == [status |-> status, exception |-> exception]

\* Project as the repository holds it
Project(status, source_image_ref) ==
    [status |-> status, source_image_ref |-> source_image_ref]

SourceFile(image) == [name |-> "source.png", data |-> image]

PdfFile == [name |-> "pattern.pdf", data |-> "pdf_bytes"]

\* project_repo.update_status: writes the status of an existing record and
\* returns silently when there is none
update_status(project, status) ==
    IF project = << >> THEN project
    ELSE << [project[1] EXCEPT !.status = status] >>

\* project_repo.update_source_image_ref
update_source_image_ref(project, ref) ==
    IF project = << >> THEN project
    ELSE << [project[1] EXCEPT !.source_image_ref = << ref >>] >>

\* sum(sc.count for sc in stitch_counts)
RECURSIVE SumOfCounts(_)
SumOfCounts(stitch_counts) ==
    IF stitch_counts = << >> THEN 0
    ELSE stitch_counts[1].count + SumOfCounts(Tail(stitch_counts))

\* PatternResult as build_and_save_pattern_result and step 7 build it
PatternResult(workflow_result, pdf_ref) ==
    [grid_width |-> workflow_result.pattern.grid.width,
     grid_height |-> workflow_result.pattern.grid.height,
     stitch_count |-> SumOfCounts(count_stitches_per_color(
                         [grid |-> workflow_result.pattern.grid]).value),
     pdf_ref |-> pdf_ref]

\* ---- requests, stored projects and failing ports ------------------------
CompleteRequests ==
    { [project_id |-> "proj-1", num_colors |-> 2, target_width |-> 3,
       target_height |-> 3, min_frequency_pct |-> p, aida_count |-> 14,
       num_strands |-> 2, margin_cm |-> 5, variant |-> "color"] :
      p \in {1, 60} }

StoredImages == {"mosaic", "gradient"}

\* what the repository and the storage hold before CompleteExistingProject
\* runs: no project, a project without source image, or a project with a
\* source_image_ref whose file is or is not in the storage
StoredProjects ==
    { [project |-> << >>, files |-> {}],
      [project |-> << Project(CREATED, None) >>, files |-> {}] }
    \cup { [project |-> << Project(s, << "source.png" >>) >>, files |-> f] :
           s \in {CREATED, FAILED, COMPLETED},
           f \in {{}} \cup { {SourceFile(i)} : i \in StoredImages } }

CompleteFaults == {RESIZE, RENDER, SAVE_PDF, ADD_RESULT, MARK_COMPLETED}

CreateFaults ==
    {SAVE_SOURCE, RESIZE, RENDER, SAVE_PDF, ADD_RESULT, MARK_COMPLETED}

\* at most one port fails in an execution
FaultSets(points) == {{}} \cup { {p} : p \in points }

InitProject ==
    /\ \/ /\ pj_entry = E_Complete
          /\ pj_request \in CompleteRequests
          /\ pj_faults \in FaultSets(CompleteFaults)
          /\ \E stored \in StoredProjects :
                pj_project = stored.project /\ pj_files = stored.files
          /\ pj_pc = "fetch"
       \/ /\ pj_entry = E_Create
          /\ pj_request \in CreateRequests
          /\ pj_faults \in FaultSets(CreateFaults)
          /\ pj_project = << >> /\ pj_files = {}
          /\ pj_pc = "add"
    /\ pj_results = << >> /\ pj_updates = << >> /\ pj_image = "none"
    /\ pj_workflow = << >>
    /\ pj_outcome = Outcome("running", "none")
    /\ SpIdle /\ FnIdle /\ RcIdle /\ DetIdle /\ CalcIdle /\ WfIdle /\ ThIdle

PjOthersUnchanged ==
    UNCHANGED << sp_vars, fn_vars, rc_vars, det_vars, calc_vars, wf_vars,
                 th_vars >>

\* variant: no except clause, the exception propagates from both use cases
PjRaise_Propagate(exception) ==
    pj_outcome' = Outcome("raised", exception) /\ pj_pc' = "done"

\* an exception leaves a processing step: CompleteExistingProject catches
\* it in its except clause, CreateCompletePattern lets it propagate
PjRaise(exception) ==
    IF pj_entry = E_Complete
    THEN pj_outcome' = Outcome("raising", exception) /\ pj_pc' = "except"
    ELSE pj_outcome' = Outcome("raised", exception) /\ pj_pc' = "done"

\* ---- CompleteExistingProject.execute ------------------------------------
\* steps 1 and 2: fetch the project, require its source image
CEP_Fetch ==
    /\ pj_pc = "fetch"
    /\ IF pj_project = << >>
       THEN pj_outcome' = Outcome("raised", "ProjectNotFoundError")
            /\ pj_pc' = "done"
       ELSE IF pj_project[1].source_image_ref = None
       THEN pj_outcome' = Outcome("raised", "DomainException")
            /\ pj_pc' = "done"
       ELSE pj_pc' = "read" /\ UNCHANGED pj_outcome
    /\ UNCHANGED << pj_entry, pj_request, pj_faults, pj_project, pj_files,
                    pj_results, pj_updates, pj_image, pj_workflow >>
    /\ PjOthersUnchanged

\* step 3: file_storage.read_source_image, FileNotFoundError when the file
\* is not there
CEP_ReadImage ==
    /\ pj_pc = "read"
    /\ IF \E f \in pj_files : f.name = pj_project[1].source_image_ref[1]
       THEN /\ pj_image' = (CHOOSE f \in pj_files :
                              f.name = pj_project[1].source_image_ref[1]).data
            /\ pj_pc' = "mark"
            /\ UNCHANGED pj_outcome
       ELSE /\ pj_outcome' = Outcome("raised", "FileNotFoundError")
            /\ pj_pc' = "done"
            /\ UNCHANGED pj_image
    /\ UNCHANGED << pj_entry, pj_request, pj_faults, pj_project, pj_files,
                    pj_results, pj_updates, pj_workflow >>
    /\ PjOthersUnchanged

\* step 4: update_status(project_id, IN_PROGRESS)
CEP_MarkInProgress ==
    /\ pj_pc = "mark"
    /\ pj_project' = update_status(pj_project, IN_PROGRESS)
    /\ pj_updates' = Append(pj_updates, IN_PROGRESS)
    /\ pj_pc' = "workflow"
    /\ UNCHANGED << pj_entry, pj_request, pj_faults, pj_files, pj_results,
                    pj_image, pj_workflow, pj_outcome >>
    /\ PjOthersUnchanged

\* step 5: run_pattern_workflow is called inside the try block; its request
\* carries no processing_mode, so the mode is always detected
CEP_CallWorkflow ==
    /\ pj_pc = "workflow"
    /\ wf_entry' = E_Workflow
    /\ wf_request' =
          [image_data |-> pj_image, num_colors |-> pj_request.num_colors,
           target_width |-> pj_request.target_width,
           target_height |-> pj_request.target_height,
           min_frequency_pct |-> pj_request.min_frequency_pct,
           aida_count |-> pj_request.aida_count,
           num_strands |-> pj_request.num_strands,
           margin_cm |-> pj_request.margin_cm,
           variant |-> pj_request.variant, processing_mode |-> "auto"]
    /\ wf_image' = pj_image
    /\ wf_target' = << pj_request.target_width, pj_request.target_height >>
    /\ wf_pc' = "mode"
    /\ pj_pc' = "pipeline"
    /\ UNCHANGED << wf_mode, wf_pixels, wf_selected, wf_index_grid, wf_calls,
                    wf_result >>
    /\ UNCHANGED << pj_entry, pj_request, pj_faults, pj_project, pj_files,
                    pj_results, pj_updates, pj_image, pj_workflow, pj_outcome >>
    /\ UNCHANGED << sp_vars, fn_vars, rc_vars, det_vars, calc_vars, th_vars >>

\* step 7: except Exception: update_status(project_id, FAILED); raise
CEP_OnException ==
    /\ pj_pc = "except"
    /\ pj_project' = update_status(pj_project, FAILED)
    /\ pj_updates' = Append(pj_updates, FAILED)
    /\ pj_outcome' = Outcome("raised", pj_outcome.exception)
    /\ pj_pc' = "done"
    /\ UNCHANGED << pj_entry, pj_request, pj_faults, pj_files, pj_results,
                    pj_image, pj_workflow >>
    /\ PjOthersUnchanged

\* ---- CreateCompletePattern.execute --------------------------------------
\* target dimensions: the request's, or the image's own
TargetOf(request) ==
    << IF request.target_width = None THEN ImageSize(request.image_data)[1]
       ELSE request.target_width[1],
       IF request.target_height = None THEN ImageSize(request.image_data)[2]
       ELSE request.target_height[1] >>

\* step 1: project_repo.add(Project(status=CREATED, source_image_ref=None))
Create_AddProject ==
    /\ pj_pc = "add"
    /\ pj_project' = << Project(CREATED, None) >>
    /\ pj_image' = pj_request.image_data
    /\ pj_pc' = "save_source"
    /\ UNCHANGED << pj_entry, pj_request, pj_faults, pj_files, pj_results,
                    pj_updates, pj_workflow, pj_outcome >>
    /\ PjOthersUnchanged

\* step 2: save_source_image and update_source_image_ref
Create_SaveSourceImage ==
    /\ pj_pc = "save_source"
    /\ IF SAVE_SOURCE \in pj_faults
       THEN /\ PjRaise(FaultException(SAVE_SOURCE))
            /\ UNCHANGED << pj_files, pj_project >>
       ELSE /\ pj_files' = pj_files \cup {SourceFile(pj_image)}
            /\ pj_project' = update_source_image_ref(pj_project, "source.png")
            /\ pj_pc' = "mark_create"
            /\ UNCHANGED pj_outcome
    /\ UNCHANGED << pj_entry, pj_request, pj_faults, pj_results, pj_updates,
                    pj_image, pj_workflow >>
    /\ PjOthersUnchanged

\* step 3: update_status(project_id, IN_PROGRESS)
Create_MarkInProgress ==
    /\ pj_pc = "mark_create"
    /\ pj_project' = update_status(pj_project, IN_PROGRESS)
    /\ pj_updates' = Append(pj_updates, IN_PROGRESS)
    /\ pj_pc' = "convert"
    /\ UNCHANGED << pj_entry, pj_request, pj_faults, pj_files, pj_results,
                    pj_image, pj_workflow, pj_outcome >>
    /\ PjOthersUnchanged

\* steps 4 and 5 begin: image to pattern, pattern to PDF
Create_BeginConversion ==
    /\ pj_pc = "convert"
    /\ wf_entry' = E_Create
    /\ wf_request' = pj_request
    /\ wf_image' = pj_image
    /\ wf_target' = TargetOf(pj_request)
    /\ wf_pc' = "resize"
    /\ pj_pc' = "pipeline"
    /\ UNCHANGED << wf_mode, wf_pixels, wf_selected, wf_index_grid, wf_calls,
                    wf_result >>
    /\ UNCHANGED << pj_entry, pj_request, pj_faults, pj_project, pj_files,
                    pj_results, pj_updates, pj_image, pj_workflow, pj_outcome >>
    /\ UNCHANGED << sp_vars, fn_vars, rc_vars, det_vars, calc_vars, th_vars >>

\* ---- the closing steps, the same in both use cases ----------------------
\* the pattern pipeline has returned its result or raised
Project_PipelineEnded ==
    /\ pj_pc = "pipeline"
    /\ wf_pc \in {"done", "save"}
    /\ pj_workflow' = wf_result
    /\ IF wf_result.status \in {"ok", "pending"}
       THEN pj_pc' = "save_pdf" /\ UNCHANGED pj_outcome
       ELSE PjRaise(wf_result.status)
    /\ UNCHANGED << pj_entry, pj_request, pj_faults, pj_project, pj_files,
                    pj_results, pj_updates, pj_image >>
    /\ PjOthersUnchanged

\* file_storage.save_pdf(project_id, pdf_bytes, "pattern.pdf")
Project_SavePdf ==
    /\ pj_pc = "save_pdf"
    /\ IF SAVE_PDF \in pj_faults
       THEN PjRaise(FaultException(SAVE_PDF)) /\ UNCHANGED pj_files
       ELSE /\ pj_files' = pj_files \cup {PdfFile}
            /\ pj_pc' = "save_result"
            /\ UNCHANGED pj_outcome
    /\ UNCHANGED << pj_entry, pj_request, pj_faults, pj_project, pj_results,
                    pj_updates, pj_image, pj_workflow >>
    /\ PjOthersUnchanged

\* pattern_result_repo.add(PatternResult(...))
Project_SaveResult ==
    /\ pj_pc = "save_result"
    /\ IF ADD_RESULT \in pj_faults
       THEN PjRaise(FaultException(ADD_RESULT)) /\ UNCHANGED pj_results
       ELSE /\ pj_results' = Append(pj_results,
                                    PatternResult(pj_workflow, PdfFile.name))
            /\ pj_pc' = "complete"
            /\ UNCHANGED pj_outcome
    /\ UNCHANGED << pj_entry, pj_request, pj_faults, pj_project, pj_files,
                    pj_updates, pj_image, pj_workflow >>
    /\ PjOthersUnchanged

\* update_status(project_id, COMPLETED), then the result object is returned
Project_MarkCompleted ==
    /\ pj_pc = "complete"
    /\ IF MARK_COMPLETED \in pj_faults
       THEN /\ PjRaise(FaultException(MARK_COMPLETED))
            /\ UNCHANGED << pj_project, pj_updates >>
       ELSE /\ pj_project' = update_status(pj_project, COMPLETED)
            /\ pj_updates' = Append(pj_updates, COMPLETED)
            /\ pj_outcome' = Outcome("returned", "none")
            /\ pj_pc' = "done"
    /\ UNCHANGED << pj_entry, pj_request, pj_faults, pj_files, pj_results,
                    pj_image, pj_workflow >>
    /\ PjOthersUnchanged

NextProject ==
    \/ CEP_Fetch
    \/ CEP_ReadImage
    \/ CEP_MarkInProgress
    \/ CEP_CallWorkflow
    \/ CEP_OnException
    \/ Create_AddProject
    \/ Create_SaveSourceImage
    \/ Create_MarkInProgress
    \/ Create_BeginConversion
    \/ Flow_DetermineMode
    \/ Flow_Resize
    \/ Flow_SelectPalette
    \/ Flow_ReduceConfetti
    \/ Flow_BuildPattern
    \/ Flow_Export
    \/ Project_PipelineEnded
    \/ Project_SavePdf
    \/ Project_SaveResult
    \/ Project_MarkCompleted

SpecProject == InitProject /\ [][NextProject]_vars

(***************************************************************************)
(* Threads calling find_nearest_dmc and select_palette while the           *)
(* module-level caches _dmc_lab_cache, _dmc_colors_ordered and             *)
(* _dmc_lab_array are unset.  One step of a thread is one read or write of *)
(* a global, or a computation on its locals; threads interleave freely.    *)
(***************************************************************************)
MaxThreads == 2

Threads == 1..MaxThreads

\* (DmcColor, LAB) pairs, as _get_dmc_lab_table builds them
BuiltLabTable ==
    [i \in 1..Len(DMC_COLORS) |->
        [color |-> DMC_COLORS[i], lab |-> rgb_to_lab(RgbOf(DMC_COLORS[i]))]]

\* list(DMC_COLORS.values())
BuiltColors == [i \in 1..Len(DMC_COLORS) |-> DMC_COLORS[i]]

\* np.array([rgb_to_lab((c.r, c.g, c.b)) for c in colors])
BuiltLabArray(colors) == [i \in 1..Len(colors) |-> rgb_to_lab(RgbOf(colors[i]))]

\* variant: the guard looks at the colour list instead of the LAB array
NumpyCacheUnset_TestsColors == _dmc_colors_ordered = None

\* if _dmc_lab_array is None
NumpyCacheUnset == _dmc_lab_array = None

\* if _dmc_lab_cache is None
ScalarCacheUnset == _dmc_lab_cache = None

\* the loop of find_nearest_dmc over the table a thread was handed
RECURSIVE ScanTable(_, _, _, _, _)
ScanTable(table, target_lab, i, best, best_dist) ==
    IF i > Len(table) THEN best
    ELSE LET dist == delta_e(target_lab, table[i].lab)
         IN  IF NearerThanBest(dist, best_dist)
             THEN ScanTable(table, target_lab, i + 1, i, dist)
             ELSE ScanTable(table, target_lab, i + 1, best, best_dist)

\* find_nearest_dmc on that table; subscripting None raises TypeError
NearestInTable(table, rgb) ==
    IF table = None THEN CalcRaise("TypeError")
    ELSE LET target_lab == rgb_to_lab(rgb)
         IN  CalcReturn(ScanTable(table, target_lab, 2, 1,
                                  delta_e(target_lab, table[1].lab)))

\* select_palette on the colour list and the LAB array a thread was handed:
\* None raises TypeError, a list and an array that do not belong together
\* give IndexError or a palette of the wrong colours
SelectWithTables(colors, labs, px, n, pct) ==
    IF colors = None \/ labs = None THEN CalcRaise("TypeError")
    ELSE IF Len(colors) # Len(labs) THEN CalcRaise("IndexError")
    ELSE IF labs # BuiltLabArray(colors) \/ colors # dmc_colors_ordered
    THEN CalcRaise("WrongColours")
    ELSE CalcReturn(select_palette(px, n, pct))

\* the calls the threads make
ThreadColors == { << 0, 0, 0 >>, << 60, 160, 165 >>, << 255, 0, 0 >> }

ThreadGrids == { << << << 0, 0, 0 >>, << 255, 255, 255 >>, << 0, 0, 0 >> >> >> }

ThreadCalls ==
    { [fn |-> "find_nearest_dmc", rgb |-> c, pixels |-> << >>,
       num_colors |-> 0] : c \in ThreadColors }
    \cup { [fn |-> "select_palette", rgb |-> << >>, pixels |-> g,
            num_colors |-> 1] : g \in ThreadGrids }

\* locals of a thread: inside the cache functions (colors, labs), what the
\* cache function is returning (ret_colors, ret_labs), and in the callers
\* (table, dmc_colors_ordered, dmc_labs); cache_calls counts the returns of
\* _get_dmc_numpy_cache
NoLocals ==
    [colors |-> None, labs |-> None, ret_colors |-> None, ret_labs |-> None,
     table |-> None, dmc_colors_ordered |-> None, dmc_labs |-> None,
     cache_calls |-> 0]

InitThreads ==
    /\ _dmc_lab_cache = None
    /\ _dmc_colors_ordered = None
    /\ _dmc_lab_array = None
    /\ th_call \in [Threads -> ThreadCalls]
    /\ th_pc = [t \in Threads |->
                  IF th_call[t].fn = "find_nearest_dmc" THEN "table_test"
                  ELSE "numpy_test"]
    /\ th_local = [t \in Threads |-> NoLocals]
    /\ th_result = [t \in Threads |-> CalcReturn(None)]
    /\ SpIdle /\ FnIdle /\ RcIdle /\ DetIdle /\ CalcIdle /\ WfIdle /\ PjIdle

ThOthersUnchanged ==
    UNCHANGED << sp_vars, fn_vars, rc_vars, det_vars, calc_vars, wf_vars,
                 pj_vars >>

Goto(t, pc) == th_pc' = [th_pc EXCEPT ![t] = pc]

\* ---- _get_dmc_lab_table --------------------------------------------------
TH_TableTest(t) ==
    /\ th_pc[t] = "table_test"
    /\ Goto(t, IF ScalarCacheUnset THEN "table_build" ELSE "table_return")
    /\ UNCHANGED << _dmc_lab_cache, _dmc_colors_ordered, _dmc_lab_array,
                    th_call, th_local, th_result >>
    /\ ThOthersUnchanged

\* the list comprehension is evaluated, then stored in the global
TH_TableBuild(t) ==
    /\ th_pc[t] = "table_build"
    /\ th_local' = [th_local EXCEPT ![t].table = BuiltLabTable]
    /\ Goto(t, "table_store")
    /\ UNCHANGED << _dmc_lab_cache, _dmc_colors_ordered, _dmc_lab_array,
                    th_call, th_result >>
    /\ ThOthersUnchanged

TH_TableStore(t) ==
    /\ th_pc[t] = "table_store"
    /\ _dmc_lab_cache' = th_local[t].table
    /\ Goto(t, "table_return")
    /\ UNCHANGED << _dmc_colors_ordered, _dmc_lab_array, th_call, th_local,
                    th_result >>
    /\ ThOthersUnchanged

\* return _dmc_lab_cache; the caller binds it to `table`
TH_TableReturn(t) ==
    /\ th_pc[t] = "table_return"
    /\ th_local' = [th_local EXCEPT ![t].table = _dmc_lab_cache]
    /\ Goto(t, "scan")
    /\ UNCHANGED << _dmc_lab_cache, _dmc_colors_ordered, _dmc_lab_array,
                    th_call, th_result >>
    /\ ThOthersUnchanged

\* the rest of find_nearest_dmc
TH_Scan(t) ==
    /\ th_pc[t] = "scan"
    /\ th_result' = [th_result EXCEPT
                        ![t] = NearestInTable(th_local[t].table, th_call[t].rgb)]
    /\ Goto(t, "done")
    /\ UNCHANGED << _dmc_lab_cache, _dmc_colors_ordered, _dmc_lab_array,
                    th_call, th_local >>
    /\ ThOthersUnchanged

\* ---- _get_dmc_numpy_cache ------------------------------------------------
TH_NumpyTest(t) ==
    /\ th_pc[t] = "numpy_test"
    /\ Goto(t, IF NumpyCacheUnset THEN "numpy_store_colors"
               ELSE "numpy_load_colors")
    /\ UNCHANGED << _dmc_lab_cache, _dmc_colors_ordered, _dmc_lab_array,
                    th_call, th_local, th_result >>
    /\ ThOthersUnchanged

\* colors = list(DMC_COLORS.values()); _dmc_colors_ordered = colors
TH_NumpyStoreColors(t) ==
    /\ th_pc[t] = "numpy_store_colors"
    /\ th_local' = [th_local EXCEPT ![t].colors = BuiltColors]
    /\ _dmc_colors_ordered' = BuiltColors
    /\ Goto(t, "numpy_build_labs")
    /\ UNCHANGED << _dmc_lab_cache, _dmc_lab_array, th_call, th_result >>
    /\ ThOthersUnchanged

\* labs = np.array([...])
TH_NumpyBuildLabs(t) ==
    /\ th_pc[t] = "numpy_build_labs"
    /\ th_local' = [th_local EXCEPT ![t].labs = BuiltLabArray(th_local[t].colors)]
    /\ Goto(t, "numpy_store_labs")
    /\ UNCHANGED << _dmc_lab_cache, _dmc_colors_ordered, _dmc_lab_array,
                    th_call, th_result >>
    /\ ThOthersUnchanged

\* _dmc_lab_array = labs
TH_NumpyStoreLabs(t) ==
    /\ th_pc[t] = "numpy_store_labs"
    /\ _dmc_lab_array' = th_local[t].labs
    /\ Goto(t, "numpy_load_colors")
    /\ UNCHANGED << _dmc_lab_cache, _dmc_colors_ordered, th_call, th_local,
                    th_result >>
    /\ ThOthersUnchanged

\* return _dmc_colors_ordered, _dmc_lab_array: the first global is read
TH_NumpyLoadColors(t) ==
    /\ th_pc[t] = "numpy_load_colors"
    /\ th_local' = [th_local EXCEPT ![t].ret_colors = _dmc_colors_ordered]
    /\ Goto(t, "numpy_load_labs")
    /\ UNCHANGED << _dmc_lab_cache, _dmc_colors_ordered, _dmc_lab_array,
                    th_call, th_result >>
    /\ ThOthersUnchanged

\* the second global is read and the pair returned: select_palette keeps
\* the colour list of its own call, find_nearest_dmc_batch the LAB array of
\* the call it makes
TH_NumpyLoadLabsAndReturn(t) ==
    /\ th_pc[t] = "numpy_load_labs"
    /\ IF th_local[t].cache_calls = 0
       THEN /\ th_local' = [th_local EXCEPT
                              ![t].ret_labs = _dmc_lab_array,
                              ![t].dmc_colors_ordered = th_local[t].ret_colors,
                              ![t].cache_calls = 1]
            /\ Goto(t, "numpy_test")
       ELSE /\ th_local' = [th_local EXCEPT
                              ![t].ret_labs = _dmc_lab_array,
                              ![t].dmc_labs = _dmc_lab_array,
                              ![t].cache_calls = 2]
            /\ Goto(t, "select")
    /\ UNCHANGED << _dmc_lab_cache, _dmc_colors_ordered, _dmc_lab_array,
                    th_call, th_result >>
    /\ ThOthersUnchanged

\* the rest of select_palette
TH_Select(t) ==
    /\ th_pc[t] = "select"
    /\ th_result' = [th_result EXCEPT
                        ![t] = SelectWithTables(th_local[t].dmc_colors_ordered,
                                                th_local[t].dmc_labs,
                                                th_call[t].pixels,
                                                th_call[t].num_colors,
                                                DEFAULT_MIN_FREQUENCY_PCT)]
    /\ Goto(t, "done")
    /\ UNCHANGED << _dmc_lab_cache, _dmc_colors_ordered, _dmc_lab_array,
                    th_call, th_local >>
    /\ ThOthersUnchanged

NextThreads ==
    \E t \in Threads :
        \/ TH_TableTest(t)
        \/ TH_TableBuild(t)
        \/ TH_TableStore(t)
        \/ TH_TableReturn(t)
        \/ TH_Scan(t)
        \/ TH_NumpyTest(t)
        \/ TH_NumpyStoreColors(t)
        \/ TH_NumpyBuildLabs(t)
        \/ TH_NumpyStoreLabs(t)
        \/ TH_NumpyLoadColors(t)
        \/ TH_NumpyLoadLabsAndReturn(t)
        \/ TH_Select(t)

SpecThreads == InitThreads /\ [][NextThreads]_vars

(***************************************************************************)
(* Properties of select_palette                                            *)
(***************************************************************************)
Returned == sp_pc = "done" /\ sp_result.status = "ok"

\* number of pixels matched to DMC index k, and the row-major position of
\* the first of them, read off the matched grid
PixelCount(k) == Cardinality({ i \in 1..Len(flat_dmc_indices) : flat_dmc_indices[i] = k })

FirstPixel(k) == CHOOSE i \in 1..Len(flat_dmc_indices) :
                    /\ flat_dmc_indices[i] = k
                    /\ \A j \in 1..(i - 1) : flat_dmc_indices[j] # k

MatchedSet == Range(flat_dmc_indices)

BelowThreshold(k) ==
    /\ min_frequency_pct > 0
    /\ PixelCount(k) * 100 < Height(pixels) * Width(pixels) * min_frequency_pct

Survivors == { k \in MatchedSet : ~BelowThreshold(k) }

\* k ranks before m: higher count, or equal count and earlier first pixel
RanksBefore(k, m) ==
    \/ PixelCount(k) > PixelCount(m)
    \/ PixelCount(k) = PixelCount(m) /\ FirstPixel(k) < FirstPixel(m)

\* C1: the returned index grid has the input's height and width and every
\* value in it is an index into the returned palette, 0 <= v < len(colors),
\* also for pixels whose matched colour was dropped.
C1_IndexGridInRange ==
    Returned =>
        /\ Len(sp_result.index_grid) = Height(pixels)
        /\ \A y \in 1..Height(pixels) :
              /\ Len(sp_result.index_grid[y]) = Width(pixels)
              /\ \A x \in 1..Width(pixels) :
                    /\ sp_result.index_grid[y][x] >= 0
                    /\ sp_result.index_grid[y][x] < Len(sp_result.palette)

\* a returned result in which some pixel's matched colour was dropped by the
\* threshold and another pixel's by the max_colors cap
C1_Witness ==
    /\ Returned
    /\ \E k \in MatchedSet : BelowThreshold(k)
    /\ \E k \in Survivors : k \notin Range(top_dmc_indices)

\* C2 (as claimed): every call on a non-empty grid with max_colors >= 1 and a
\* threshold in [0, 100] returns normally with a non-empty palette.
C2_AlwaysReturnsNonEmptyPalette ==
    sp_pc = "done" => sp_result.status = "ok" /\ Len(sp_result.palette) >= 1

\* C3: the palette holds exactly min(max_colors, S) colours, S the number of
\* surviving matched colours; they are listed by descending pixel count, equal
\* counts by earlier first pixel in the row-major scan, and every excluded
\* survivor ranks after every included one.
C3_TopNByCountThenFirstPixel ==
    Returned =>
        /\ Len(sp_result.palette) = Min(num_colors, Cardinality(Survivors))
        /\ Len(sp_result.palette) <= num_colors
        /\ Range(top_dmc_indices) \subseteq Survivors
        /\ \A i \in 1..(Len(top_dmc_indices) - 1) :
              RanksBefore(top_dmc_indices[i], top_dmc_indices[i + 1])
        /\ \A e \in Survivors \ Range(top_dmc_indices) :
              \A i \in 1..Len(top_dmc_indices) :
                  /\ RanksBefore(top_dmc_indices[i], e)
                  /\ PixelCount(e) <= PixelCount(top_dmc_indices[i])

\* a returned result where the cap excluded a survivor that has the same
\* count as an included one, so that the tie-break decided the palette
C3_Witness ==
    /\ Returned
    /\ \E e \in Survivors \ Range(top_dmc_indices) :
          \E i \in 1..Len(top_dmc_indices) :
              PixelCount(e) = PixelCount(top_dmc_indices[i])

\* C4: after step 3 the frequency table holds exactly the matched colours
\* whose count is not strictly below total_pixels * pct / 100 (all of them for
\* pct = 0), with their counts; the 9-to-1 grid with threshold 15 yields a
\* one-colour palette and an all-zero index grid.
C4_ThresholdStrictlyBelow ==
    /\ sp_pc \in {"step4", "step5", "step6", "done"} =>
          /\ Keys(frequency) = Survivors
          /\ \A i \in 1..Len(frequency) : frequency[i][2] = PixelCount(frequency[i][1])
          /\ min_frequency_pct = 0 => Keys(frequency) = MatchedSet
    /\ (sp_pc = "done" /\ pixels = NineToOne /\ min_frequency_pct = 15) =>
          /\ sp_result.status = "ok"
          /\ Len(sp_result.palette) = 1
          /\ \A x \in 1..10 : sp_result.index_grid[1][x] = 0

\* after step 3: one colour exactly at the threshold was kept and another,
\* below it, was removed
C4_Witness ==
    /\ sp_pc = "step4"
    /\ min_frequency_pct > 0
    /\ \E k \in Keys(frequency) :
          PixelCount(k) * 100 = Height(pixels) * Width(pixels) * min_frequency_pct
    /\ \E k \in MatchedSet : k \notin Keys(frequency)

\* C5: the DMC list mirrors the palette: same length, palette.colors[i] is the
\* RGB of dmc_list[i], every entry is a catalog entry, none appears twice.
C5_DmcListMirrorsPalette ==
    Returned =>
        /\ Len(sp_result.dmc_list) = Len(sp_result.palette)
        /\ \A i \in 1..Len(sp_result.dmc_list) :
              /\ sp_result.palette[i] = << sp_result.dmc_list[i].r,
                                           sp_result.dmc_list[i].g,
                                           sp_result.dmc_list[i].b >>
              /\ sp_result.dmc_list[i] \in Range(DMC_COLORS)
              /\ \A j \in 1..Len(sp_result.dmc_list) :
                    j # i => sp_result.dmc_list[j] # sp_result.dmc_list[i]

\* a returned result with at least two palette colours, one of them not grey
C5_Witness ==
    /\ Returned
    /\ Len(sp_result.dmc_list) >= 2
    /\ \E i \in 1..Len(sp_result.palette) :
          sp_result.palette[i][1] # sp_result.palette[i][3]

(***************************************************************************)
(* Properties of reduce_confetti                                           *)
(***************************************************************************)
InConfetti == rc_pc # "idle"

\* in-bounds 8-connected neighbour positions of (r, c) in grid g
NbrPositions(g, r, c) ==
    { q \in (1..Rows(g)) \X (1..Cols(g)) :
        /\ q # << r, c >>
        /\ Abs(q[1] - r) <= 1
        /\ Abs(q[2] - c) <= 1 }

\* how many neighbours of (r, c) hold value v
NbrHolding(g, r, c, v) == Cardinality({ q \in NbrPositions(g, r, c) : g[q[1]][q[2]] = v })

GridValues(g) == { g[q[1]][q[2]] : q \in (1..Rows(g)) \X (1..Cols(g)) }

\* C7: in a pass a cell changes iff some value other than its own is held by
\* at least 5 of its in-bounds neighbours, and then takes that value; so a
\* cell with fewer than 5 in-bounds neighbours never changes.
C7_ReplacedIffFiveAgree ==
    (InConfetti /\ passes_done >= 1) =>
        \A r \in 1..Rows(pass_start) : \A c \in 1..Cols(pass_start) :
            LET old == pass_start[r][c]
                new == heap[cells][r][c]
                winners == { v \in GridValues(pass_start) \ {old} :
                               NbrHolding(pass_start, r, c, v) >= 5 }
            IN  /\ new # old <=> winners # {}
                /\ new # old => new \in winners
                /\ Cardinality(NbrPositions(pass_start, r, c)) < 5 => new = old

\* after a pass: a border cell with exactly 5 neighbours was replaced, and an
\* interior cell with 4 neighbours of its own value and 4 of other values was
\* kept
C7_Witness ==
    /\ InConfetti /\ passes_done >= 1
    /\ \E r \in 1..Rows(pass_start) : \E c \in 1..Cols(pass_start) :
          /\ Cardinality(NbrPositions(pass_start, r, c)) = 5
          /\ heap[cells][r][c] # pass_start[r][c]
    /\ \E r \in 1..Rows(pass_start) : \E c \in 1..Cols(pass_start) :
          /\ Cardinality(NbrPositions(pass_start, r, c)) = 8
          /\ NbrHolding(pass_start, r, c, pass_start[r][c]) = 4
          /\ heap[cells][r][c] = pass_start[r][c]

\* a pass as a synchronous update: every cell decided on the same grid g
SyncPass(g) == [r \in 1..Rows(g) |-> [c \in 1..Cols(g) |-> DecideCell(g, r, c)]]

RECURSIVE SyncPasses(_, _)
SyncPasses(g, n) == IF n = 0 THEN g ELSE SyncPasses(SyncPass(g), n - 1)

\* C8: the grid `cells` refers to after k passes is the k-fold synchronous
\* update of the caller's grid (no decision sees a replacement of the same
\* pass; each pass starts from the previous one's output), and the caller's
\* list object still holds what it held before the call.
C8_SynchronousPassesInputKept ==
    InConfetti =>
        /\ heap[1] = caller_cells
        /\ heap[cells] = SyncPasses(caller_cells, passes_done)
        /\ passes_done >= 1 => pass_start = SyncPasses(caller_cells, passes_done - 1)

\* the call returned after two passes, both of which replaced a cell
C8_Witness ==
    /\ rc_pc = "done"
    /\ passes_done = 2
    /\ pass_start # caller_cells
    /\ heap[cells] # pass_start

IsUniform(g) == Cardinality(GridValues(g)) = 1

\* two solid regions side by side: columns 1..k hold a, the others b
IsVerticalSplit(g) ==
    \E k \in 1..(Cols(g) - 1) :
        /\ g[1][k] # g[1][k + 1]
        /\ \A r \in 1..Rows(g) : \A c \in 1..Cols(g) :
              g[r][c] = IF c <= k THEN g[1][1] ELSE g[1][k + 1]

\* two solid regions one above the other: rows 1..k hold a, the others b
IsHorizontalSplit(g) ==
    \E k \in 1..(Rows(g) - 1) :
        /\ g[k][1] # g[k + 1][1]
        /\ \A r \in 1..Rows(g) : \A c \in 1..Cols(g) :
              g[r][c] = IF r <= k THEN g[1][1] ELSE g[k + 1][1]

\* C9: a uniform grid, or one made of two solid regions separated by one
\* straight vertical or horizontal boundary, stays equal to the input after
\* every pass and is returned unchanged.
C9_BlockyInputUnchanged ==
    (InConfetti /\ (IsUniform(caller_cells) \/ IsVerticalSplit(caller_cells)
                       \/ IsHorizontalSplit(caller_cells))) =>
        heap[cells] = caller_cells

\* two passes over a two-region grid with a region one cell wide and cells
\* that have 8 neighbours
C9_Witness ==
    /\ rc_pc = "done"
    /\ passes_done = 2
    /\ Rows(caller_cells) >= 3 /\ Cols(caller_cells) >= 3
    /\ IsVerticalSplit(caller_cells)
    /\ caller_cells[1][1] # caller_cells[1][2]
    /\ heap[cells] = caller_cells

(***************************************************************************)
(* Properties of find_nearest_dmc                                          *)
(***************************************************************************)
\* Delta-E between the looked-up colour and catalog entry j, squared
FnDist(j) == delta_e(rgb_to_lab(fn_rgb), rgb_to_lab(RgbOf(DMC_COLORS[j]))).root_of

\* C6: the entry returned has minimal Delta-E over the whole catalog and is
\* the first such entry in catalog order; a colour that is the RGB of some
\* catalog entry returns an entry with that RGB, and black returns "310".
C6_NearestFirstMinimum ==
    fn_pc = "done" =>
        /\ fn_result \in 1..Len(DMC_COLORS)
        /\ \A j \in 1..Len(DMC_COLORS) : FnDist(fn_result) <= FnDist(j)
        /\ \A j \in 1..(fn_result - 1) : FnDist(j) > FnDist(fn_result)
        /\ (\E j \in 1..Len(DMC_COLORS) : RgbOf(DMC_COLORS[j]) = fn_rgb) =>
              /\ RgbOf(DMC_COLORS[fn_result]) = fn_rgb
              /\ FnDist(fn_result) = 0
        /\ fn_rgb = << 0, 0, 0 >> => DMC_COLORS[fn_result].number = "310"

\* a lookup in which two catalog entries are equally near and nearest
C6_Witness ==
    /\ fn_pc = "done"
    /\ \E j \in 1..Len(DMC_COLORS) :
          j # fn_result /\ FnDist(j) = FnDist(fn_result)

(***************************************************************************)
(* Properties of the style classifier                                      *)
(***************************************************************************)
DetEmpty == Len(det_pixels) = 0 \/ Len(det_pixels[1]) = 0

\* the pixels (y, x) that differ from their right or their below neighbour
\* by more than 60
EdgePixelSet(px) ==
    { q \in (1..Len(px)) \X (1..Len(px[1])) :
        \/ /\ q[2] < Len(px[1])
           /\ PairDiff(px[q[1]][q[2]], px[q[1]][q[2] + 1]) > 60
        \/ /\ q[1] < Len(px)
           /\ PairDiff(px[q[1]][q[2]], px[q[1] + 1][q[2]]) > 60 }

DistinctColors(px) == { px[q[1]][q[2]] : q \in (1..Len(px)) \X (1..Len(px[1])) }

\* C10: on a non-empty grid the mode is pixel_art iff there are at most 64
\* distinct colours; otherwise drawing iff more than 3/10 of the pixels are
\* edge pixels and there are fewer than 1000 distinct colours; otherwise
\* photo.  On an empty grid the result is photo with all scores zero.  No
\* call raises.
C10_ClassificationBoundaries ==
    det_pc = "done" =>
        /\ det_result.raised = "none"
        /\ DetEmpty =>
              /\ det_result.mode = "photo"
              /\ det_result.unique_color_count = 0
              /\ det_result.edge_density[1] = 0
              /\ det_result.avg_neighbor_diff[1] = 0
              /\ det_result.flat_ratio[1] = 0
        /\ ~DetEmpty =>
              LET n == Cardinality(DistinctColors(det_pixels))
                  dense == 10 * Cardinality(EdgePixelSet(det_pixels))
                              > 3 * Len(det_pixels) * Len(det_pixels[1])
              IN  /\ det_result.mode = "pixel_art" <=> n <= 64
                  /\ det_result.mode = "drawing" <=> (n > 64 /\ dense /\ n < 1000)
                  /\ det_result.mode = "photo" <=> (n > 64 /\ ~(dense /\ n < 1000))

\* a grid with exactly 64 colours and many edge pixels, classified pixel_art
C10_Witness ==
    /\ det_pc = "done"
    /\ ~DetEmpty
    /\ Cardinality(DistinctColors(det_pixels)) = 64
    /\ 10 * Cardinality(EdgePixelSet(det_pixels)) > 3 * Len(det_pixels) * Len(det_pixels[1])
    /\ det_result.mode = "pixel_art"

(***************************************************************************)
(* Properties of compute_tiles                                             *)
(***************************************************************************)
CalcDone(fn) == calc_fn = fn /\ calc_pc = "done"

TilesReturned == CalcDone("compute_tiles") /\ calc_result.error = "none"

Tiles == calc_result.value.tiles

TileWidth(t) == t.col_end - t.col_start

TileHeight(t) == t.row_end - t.row_start

Covers(t, x, y) ==
    /\ t.col_start <= x /\ x < t.col_end
    /\ t.row_start <= y /\ y < t.row_end

\* the least n with n * per_page >= size, for positive size and per_page
BandsNeeded(size, per_page) ==
    CHOOSE n \in 1..size : n * per_page >= size /\ (n - 1) * per_page < size

SameRowBand(s, t) == s.row_start = t.row_start /\ s.row_end = t.row_end

SameColBand(s, t) == s.col_start = t.col_start /\ s.col_end = t.col_end

\* C11: the tiles partition the grid: every cell lies in exactly one tile;
\* every tile is non-empty, inside the grid and at most one page wide and
\* high, and only a tile that ends at the grid boundary is smaller.
C11_TilesPartitionGrid ==
    TilesReturned =>
        /\ \A x \in 0..(calc_args.grid_width - 1), y \in 0..(calc_args.grid_height - 1) :
              Cardinality({ k \in 1..Len(Tiles) : Covers(Tiles[k], x, y) }) = 1
        /\ \A k \in 1..Len(Tiles) :
              LET t == Tiles[k]
              IN  /\ 0 <= t.col_start /\ t.col_start < t.col_end
                  /\ t.col_end <= calc_args.grid_width
                  /\ 0 <= t.row_start /\ t.row_start < t.row_end
                  /\ t.row_end <= calc_args.grid_height
                  /\ TileWidth(t) <= calc_args.cols_per_page
                  /\ TileHeight(t) <= calc_args.rows_per_page
                  /\ TileWidth(t) < calc_args.cols_per_page
                        => t.col_end = calc_args.grid_width
                  /\ TileHeight(t) < calc_args.rows_per_page
                        => t.row_end = calc_args.grid_height

\* a grid of several bands both ways whose last column and last row of
\* tiles are smaller than a page
C11_Witness ==
    /\ TilesReturned
    /\ Len(Tiles) >= 4
    /\ calc_args.grid_width > calc_args.cols_per_page
    /\ calc_args.grid_height > calc_args.rows_per_page
    /\ TileWidth(Tiles[Len(Tiles)]) < calc_args.cols_per_page
    /\ TileHeight(Tiles[Len(Tiles)]) < calc_args.rows_per_page

\* C12: there are ceil(W / cols_per_page) * ceil(H / rows_per_page) tiles in
\* row-major order, the k-th with page_index k counted from 0, total_pages
\* is their number; an exact fit is one tile, one stitch more is two.
C12_TileCountRowMajor ==
    TilesReturned =>
        LET nc == BandsNeeded(calc_args.grid_width, calc_args.cols_per_page)
            nr == BandsNeeded(calc_args.grid_height, calc_args.rows_per_page)
        IN  /\ Len(Tiles) = nc * nr
            /\ calc_result.value.total_pages = Len(Tiles)
            /\ \A k \in 1..Len(Tiles) :
                  /\ Tiles[k].page_index = k - 1
                  /\ Tiles[k].col_start = ((k - 1) % nc) * calc_args.cols_per_page
                  /\ Tiles[k].row_start = ((k - 1) \div nc) * calc_args.rows_per_page
            /\ (calc_args.grid_width = calc_args.cols_per_page
                  /\ calc_args.grid_height = calc_args.rows_per_page)
                  => Len(Tiles) = 1
            /\ (calc_args.grid_width = calc_args.cols_per_page + 1
                  /\ calc_args.grid_height = calc_args.rows_per_page)
                  => Len(Tiles) = 2
            /\ (calc_args.grid_width = calc_args.cols_per_page
                  /\ calc_args.grid_height = calc_args.rows_per_page + 1)
                  => Len(Tiles) = 2

\* a grid that fits its page exactly, returned as one tile
C12_Witness ==
    /\ TilesReturned
    /\ calc_args.grid_width = calc_args.cols_per_page
    /\ calc_args.grid_height = calc_args.rows_per_page
    /\ calc_args.cols_per_page > 1
    /\ Len(Tiles) = 1 /\ Tiles[1].page_index = 0

CenterAsClaimed(c, start, end, size) ==
    /\ c # None <=> (2 * start < size /\ size <= 2 * end)
    /\ c # None => /\ c[1] = size - 2 * start
                   /\ 0 < c[1] /\ c[1] <= 2 * (end - start)
    /\ 2 * start = size => c = None
    /\ 2 * end = size => c # None

\* C13: center_col is non-null iff col_start < W/2 <= col_end and is then
\* W/2 - col_start, in (0, tile width]; center_row likewise; a centre on
\* the boundary of two tiles is carried by the one that ends there only.
C13_CenterOnlyInEndingTile ==
    TilesReturned =>
        \A k \in 1..Len(Tiles) :
            /\ CenterAsClaimed(Tiles[k].center_col, Tiles[k].col_start,
                               Tiles[k].col_end, calc_args.grid_width)
            /\ CenterAsClaimed(Tiles[k].center_row, Tiles[k].row_start,
                               Tiles[k].row_end, calc_args.grid_height)

\* the column centre lies on the boundary of two neighbouring tiles: the
\* left one carries it at its right edge, the right one does not
C13_Witness ==
    /\ TilesReturned
    /\ \E j, k \in 1..Len(Tiles) :
          /\ SameRowBand(Tiles[j], Tiles[k])
          /\ Tiles[j].col_end = Tiles[k].col_start
          /\ 2 * Tiles[j].col_end = calc_args.grid_width
          /\ Tiles[j].center_col = << 2 * TileWidth(Tiles[j]) >>
          /\ Tiles[k].center_col = None

\* C14 as stated: at most one tile of a row band (same row_start/row_end)
\* carries a center_row and at most one tile of a column band (same
\* col_start/col_end) carries a center_col.
C14_AtMostOnePerOwnBand ==
    TilesReturned =>
        \A j, k \in 1..Len(Tiles) :
            j # k =>
                /\ SameRowBand(Tiles[j], Tiles[k])
                      => ~(Tiles[j].center_row # None /\ Tiles[k].center_row # None)
                /\ SameColBand(Tiles[j], Tiles[k])
                      => ~(Tiles[j].center_col # None /\ Tiles[k].center_col # None)

\* C14, amended: at most one tile of a column band carries a center_row
\* and at most one tile of a row band carries a center_col.
C14_AtMostOnePerCrossingBand ==
    TilesReturned =>
        \A j, k \in 1..Len(Tiles) :
            j # k =>
                /\ SameColBand(Tiles[j], Tiles[k])
                      => ~(Tiles[j].center_row # None /\ Tiles[k].center_row # None)
                /\ SameRowBand(Tiles[j], Tiles[k])
                      => ~(Tiles[j].center_col # None /\ Tiles[k].center_col # None)

\* several bands both ways; two tiles of the centre's row band both carry
\* the center_row, and the row centre lies on a tile boundary
C14_Witness ==
    /\ TilesReturned
    /\ \E j, k \in 1..Len(Tiles) :
          /\ j # k /\ SameRowBand(Tiles[j], Tiles[k])
          /\ Tiles[j].center_row # None /\ Tiles[k].center_row # None
          /\ 2 * Tiles[j].row_end = calc_args.grid_height
    /\ \E j, k \in 1..Len(Tiles) :
          /\ j # k /\ SameColBand(Tiles[j], Tiles[k])
          /\ Tiles[j].center_row # None /\ Tiles[k].center_row = None

(***************************************************************************)
(* Properties of compute_cell_size_mm                                      *)
(***************************************************************************)
CellSizeReturned ==
    CalcDone("compute_cell_size_mm") /\ calc_result.error = "none"

PagesAtFiveMm(a) ==
    BandsNeeded(a.grid_width, cols_per_page(500))
        * BandsNeeded(a.grid_height, rows_per_page(500))

\* C15: 5.0 mm up to 4 pages at 5 mm cells, 3.0 mm from 20 pages on, in
\* between 5.0 - (pages - 4)/16 * 2.0 rounded to two decimals; always within
\* [3.0, 5.0]; never larger for a wider or higher grid.
C15_CellSizeInterpolated ==
    CellSizeReturned =>
        LET pages == PagesAtFiveMm(calc_args)
            v == calc_result.value
        IN  /\ pages <= 4 => v = 500
            /\ pages >= 20 => v = 300
            /\ (4 < pages /\ pages < 20)
                  => Abs(10 * v - (5000 - 125 * (pages - 4))) <= 5
            /\ 300 <= v /\ v <= 500
            /\ \A b \in CellSizeArgs :
                  (b.grid_width >= calc_args.grid_width
                     /\ b.grid_height >= calc_args.grid_height)
                  => compute_cell_size_mm(b).value <= v

\* 5 pages: 4.875 mm, rounded to 4.88
C15_Witness ==
    /\ CellSizeReturned
    /\ PagesAtFiveMm(calc_args) = 5
    /\ calc_result.value = 488

(***************************************************************************)
(* Properties of count_stitches_per_color                                  *)
(***************************************************************************)
StitchesReturned ==
    CalcDone("count_stitches_per_color") /\ calc_result.error = "none"

GridIndices(grid) ==
    { grid.cells[y][x] : y \in 1..grid.height, x \in 1..grid.width }

CellsHolding(grid, idx) ==
    Cardinality({ p \in (1..grid.height) \X (1..grid.width) :
                    grid.cells[p[1]][p[2]] = idx })

RECURSIVE SumCounts(_)
SumCounts(entries) ==
    IF entries = << >> THEN 0
    ELSE Head(entries).count + SumCounts(Tail(entries))

\* C16: one entry for every palette index of the grid and none for any
\* other, in strictly ascending palette_index order, each counting the
\* cells that hold its index; the counts sum to width * height.
C16_OneEntryPerIndexAscending ==
    StitchesReturned =>
        LET r == calc_result.value
            g == calc_args.grid
        IN  /\ \A idx \in GridIndices(g) :
                  Cardinality({ i \in 1..Len(r) : r[i].palette_index = idx }) = 1
            /\ \A i \in 1..Len(r) :
                  /\ r[i].palette_index \in GridIndices(g)
                  /\ r[i].count = CellsHolding(g, r[i].palette_index)
            /\ \A i \in 1..(Len(r) - 1) :
                  r[i].palette_index < r[i + 1].palette_index
            /\ SumCounts(r) = g.width * g.height

\* the grid's first cell holds its largest index, and index 1 is absent
C16_Witness ==
    /\ StitchesReturned
    /\ GridIndices(calc_args.grid) = {0, 2}
    /\ calc_args.grid.cells[1][1] = 2
    /\ Len(calc_result.value) = 2
    /\ calc_result.value[1].palette_index = 0

(***************************************************************************)
(* Properties of compute_per_color_floss                                   *)
(***************************************************************************)
PerColorReturned ==
    CalcDone("compute_per_color_floss") /\ calc_result.error = "none"

\* s = ceil(count * (1 + margin_ratio) / skein_capacity) in exact
\* arithmetic, skein_capacity = (8 * 100 * 6 / num_strands) / (19.6 / aida_count):
\* the quotient is count * (100 + margin%) * 49 * num_strands / (1200000 * aida_count)
SkeinsAsClaimed(s, count, a) ==
    LET n == count * (100 + a.margin_ratio) * 49 * a.num_strands
        d == 1200000 * a.aida_count
    IN  s * d >= n /\ (s - 1) * d < n

\* C17: one estimate per input entry, ascending by palette_index whatever
\* the input order, each keeping its stitch_count, with
\* skeins = ceil(stitch_count * (1 + margin_ratio) / skein_capacity);
\* skeins >= 1 for stitch_count >= 1, and not less for a larger count.
C17_SkeinsFollowFormula ==
    PerColorReturned =>
        LET r == calc_result.value
            given == calc_args.color_stitch_counts
        IN  /\ Len(r) = Len(given)
            /\ \A j \in 1..Len(given) :
                  \E i \in 1..Len(r) :
                      /\ r[i].palette_index = given[j].palette_index
                      /\ r[i].stitch_count = given[j].count
            /\ \A i \in 1..(Len(r) - 1) :
                  r[i].palette_index <= r[i + 1].palette_index
            /\ \A i \in 1..Len(r) :
                  /\ SkeinsAsClaimed(r[i].skeins, r[i].stitch_count, calc_args)
                  /\ r[i].stitch_count >= 1 => r[i].skeins >= 1
            /\ \A i, j \in 1..Len(r) :
                  r[i].stitch_count <= r[j].stitch_count
                      => r[i].skeins <= r[j].skeins

(***************************************************************************)
(* Properties of the parameter validation                                  *)
(***************************************************************************)
FabricInvalid(a) ==
    a.stitches_w <= 0 \/ a.stitches_h <= 0 \/ a.aida_count <= 0 \/ a.margin_cm < 0

FlossInvalid(a) ==
    a.aida_count <= 0 \/ a.num_strands < 1 \/ a.num_strands > 6 \/ a.margin_ratio < 0

TilesInvalid(a) ==
    \/ a.grid_width <= 0 \/ a.grid_height <= 0
    \/ a.cols_per_page <= 0 \/ a.rows_per_page <= 0

CalcFailed == calc_result.error # "none"

\* C18 as stated: a rejected call returns nothing; compute_fabric_size_cm
\* fails iff stitches_w, stitches_h or aida_count <= 0 or margin_cm < 0; the
\* floss estimators fail iff aida_count <= 0, num_strands outside 1..6 or
\* margin_ratio < 0; compute_tiles fails iff a dimension is <= 0.
C18_RejectsExactlyAsStated ==
    calc_pc = "done" =>
        /\ CalcFailed => calc_result.value = << >>
        /\ calc_fn = "compute_fabric_size_cm"
              => (CalcFailed <=> FabricInvalid(calc_args))
        /\ calc_fn \in {"compute_per_color_floss", "compute_floss_estimate"}
              => (CalcFailed <=> FlossInvalid(calc_args))
        /\ calc_fn = "compute_tiles"
              => (CalcFailed <=> TilesInvalid(calc_args))

\* C18, amended: as stated, except that compute_floss_estimate also fails
\* when total_stitches <= 0 or num_colors <= 0.
C18_RejectsExactlyInvalid ==
    calc_pc = "done" =>
        /\ CalcFailed => calc_result.value = << >>
        /\ calc_fn = "compute_fabric_size_cm"
              => (CalcFailed <=> FabricInvalid(calc_args))
        /\ calc_fn = "compute_per_color_floss"
              => (CalcFailed <=> FlossInvalid(calc_args))
        /\ calc_fn = "compute_floss_estimate"
              => (CalcFailed <=> \/ FlossInvalid(calc_args)
                                 \/ calc_args.total_stitches <= 0
                                 \/ calc_args.num_colors <= 0)
        /\ calc_fn = "compute_tiles"
              => (CalcFailed <=> TilesInvalid(calc_args))

\* compute_floss_estimate rejects total_stitches = 0 although aida_count,
\* num_strands and margin_ratio are valid
C18_Witness ==
    /\ CalcDone("compute_floss_estimate")
    /\ calc_args.total_stitches = 0 /\ calc_args.num_colors > 0
    /\ ~FlossInvalid(calc_args)
    /\ CalcFailed /\ calc_result.value = << >>

(***************************************************************************)
(* Properties of the orchestrating entry points                            *)
(***************************************************************************)
CallsNamed(fn) == SelectSeq(wf_calls, LAMBDA c : c.fn = fn)

PositionsOf(fn) == { i \in 1..Len(wf_calls) : wf_calls[i].fn = fn }

\* the style of each image, as the classifier reports it on the thumbnail
StyleOf(image) ==
    CASE image = "mosaic" -> "pixel_art"
      [] image = "gradient" -> "photo"
      [] image = "line_drawing" -> "drawing"

\* forced by the request, or detected under auto
EffectiveMode ==
    IF wf_request.processing_mode = "auto" THEN StyleOf(wf_image)
    ELSE wf_request.processing_mode

PastConfetti == wf_pc \in {"build", "export", "save", "done"}

PatternBuilt ==
    /\ wf_pc \in {"export", "save", "done"}
    /\ wf_result.status \in {"ok", "pending"}

\* C19: in ConvertImageToPattern.execute and run_pattern_workflow, when the
\* effective processing mode is pixel_art, select_palette is called with
\* threshold 0 and reduce_confetti is never called; for photo and drawing
\* select_palette receives the request's min_frequency_pct and
\* reduce_confetti is applied exactly once, with the default passes, to the
\* index grid select_palette returned, before the Pattern is built.
C19_ModeGatesThresholdAndConfetti ==
    wf_entry \in {E_Convert, E_Workflow} =>
        /\ wf_mode # "none" => wf_mode = EffectiveMode
        /\ \A i \in PositionsOf("select_palette") :
              wf_calls[i].args.min_frequency_pct =
                 IF EffectiveMode = "pixel_art" THEN 0
                 ELSE wf_request.min_frequency_pct
        /\ EffectiveMode = "pixel_art" => PositionsOf("reduce_confetti") = {}
        /\ Cardinality(PositionsOf("reduce_confetti")) <= 1
        /\ \A i \in PositionsOf("reduce_confetti") :
              /\ \E j \in PositionsOf("select_palette") : j < i
              /\ wf_calls[i].args.cells = wf_selected.index_grid
        /\ (PastConfetti /\ wf_selected.status = "ok"
               /\ EffectiveMode \in {"photo", "drawing"}) =>
              /\ Cardinality(PositionsOf("reduce_confetti")) = 1
              /\ wf_index_grid =
                    reduce_confetti(wf_selected.index_grid, DEFAULT_NUM_PASSES)
        /\ PatternBuilt =>
              /\ Cardinality(PositionsOf("select_palette")) = 1
              /\ wf_result.pattern.grid.cells =
                    IF EffectiveMode = "pixel_art" THEN wf_selected.index_grid
                    ELSE reduce_confetti(wf_selected.index_grid,
                                         DEFAULT_NUM_PASSES)

\* an auto request on a line drawing returned a Pattern whose grid the one
\* confetti pass changed, after select_palette got the request's 15 percent
C19_Witness ==
    /\ wf_entry = E_Workflow
    /\ wf_request.processing_mode = "auto"
    /\ wf_pc = "done"
    /\ wf_result.status = "ok"
    /\ wf_mode = "drawing"
    /\ wf_request.min_frequency_pct = 15
    /\ Len(CallsNamed("select_palette")) = 1
    /\ CallsNamed("select_palette")[1].args.min_frequency_pct = 15
    /\ Len(CallsNamed("reduce_confetti")) = 1
    /\ wf_result.pattern.grid.cells # wf_selected.index_grid

\* the filter the full-resolution resize uses for each detected mode
FilterAsClaimed(mode) ==
    CASE mode = "pixel_art" -> "nearest"
      [] mode = "drawing" -> "bilinear"
      [] mode = "photo" -> "lanczos"

\* CreateCompletePattern's request carries no processing mode: every run of
\* it is an automatic one
RunsUnderAuto ==
    wf_entry = E_Create \/ wf_request.processing_mode = "auto"

ResizeDone == wf_pc \in {"palette", "confetti", "build", "export", "save", "done"}

\* C20: with processing mode auto, every orchestrating entry point calls the
\* image resizer's load_and_resize exactly twice and in this order: first a
\* thumbnail resize whose result is given to the style classifier, then one
\* resize to the target width and height with the filter of the detected
\* mode (pixel_art nearest, drawing bilinear, photo lanczos).
C20_AutoResizesTwice ==
    (RunsUnderAuto /\ ResizeDone) =>
        LET resizes == CallsNamed("image_resizer.load_and_resize")
            detects == CallsNamed("mode_detector.detect")
        IN  /\ Len(resizes) = 2
            /\ resizes[1].args.width = THUMBNAIL_SIZE
            /\ resizes[1].args.height = THUMBNAIL_SIZE
            /\ Len(detects) = 1
            /\ detects[1].args.pixels = resizes[1].args
            /\ \A i \in PositionsOf("image_resizer.load_and_resize") :
                  \A j \in PositionsOf("mode_detector.detect") :
                     (wf_calls[i].args = resizes[1].args) <=> i < j
            /\ resizes[2].args.width = wf_target[1]
            /\ resizes[2].args.height = wf_target[2]
            /\ resizes[2].args.resampling = FilterAsClaimed(StyleOf(wf_image))

(***************************************************************************)
(* Properties of the project use cases                                     *)
(***************************************************************************)
PjEnded == pj_pc = "done"

PjRaised(exception) == pj_outcome = Outcome("raised", exception)

ProjectMissing == pj_project = << >>

NoSourceImage ==
    pj_project # << >> /\ pj_project[1].source_image_ref = None

SourceUnreadable ==
    /\ pj_project # << >>
    /\ pj_project[1].source_image_ref # None
    /\ \A f \in pj_files : f.name # pj_project[1].source_image_ref[1]

PdfSaved == PdfFile \in pj_files

\* the exception the failing processing step raised
StepException ==
    IF pj_workflow.status \notin {"ok", "pending"} THEN pj_workflow.status
    ELSE FaultException(CHOOSE point \in pj_faults : TRUE)

\* the parts of the status protocol that hold however execute begins:
\* COMPLETED is written last and only after the PDF and the PatternResult
\* were saved, the stored status is the last one written, and execute
\* never ends on IN_PROGRESS
StatusProtocol ==
    /\ \A i \in 1..Len(pj_updates) :
          pj_updates[i] = COMPLETED =>
             i = Len(pj_updates) /\ PdfSaved /\ Len(pj_results) = 1
    /\ pj_updates # << >> =>
          /\ pj_updates[1] = IN_PROGRESS
          /\ pj_project[1].status = pj_updates[Len(pj_updates)]
    /\ PjEnded =>
          /\ pj_project # << >> => pj_project[1].status # IN_PROGRESS
          /\ pj_updates = << >>
             \/ /\ pj_updates = << IN_PROGRESS, COMPLETED >>
                /\ pj_outcome = Outcome("returned", "none")
             \/ /\ pj_updates = << IN_PROGRESS, FAILED >>
                /\ PjRaised(StepException)

C22_AllOrNothing ==
    (pj_entry = E_Create /\ PjEnded /\ pj_outcome.status = "raised") =>
        /\ pj_project = << >>
        /\ pj_files = {}
        /\ pj_results = << >>

(***************************************************************************)
(* Properties of the lazily built caches under concurrent calls            *)
(***************************************************************************)
\* what the same call returns when it runs alone
SingleThreaded(call) ==
    IF call.fn = "find_nearest_dmc" THEN CalcReturn(find_nearest_dmc(call.rgb))
    ELSE CalcReturn(select_palette(call.pixels, call.num_colors,
                                   DEFAULT_MIN_FREQUENCY_PCT))

\* row i of the LAB array belongs to colour i of the list
RowsBelong(colors, labs) ==
    /\ colors # None /\ labs # None
    /\ Len(colors) = Len(labs)
    /\ \A i \in 1..Len(colors) : labs[i] = rgb_to_lab(RgbOf(colors[i]))

\* C23: when several threads call select_palette or find_nearest_dmc while
\* the caches are unset, every call gets fully built, mutually consistent
\* tables: whatever a caller was handed is never None, the colour list and
\* the LAB array have the same length and row i belongs to colour i, a
\* redundant rebuild stores an identical table, and every call returns what
\* it returns single-threaded.
C23_CachesSafeUnderRaces ==
    /\ _dmc_lab_cache \in {None, BuiltLabTable}
    /\ _dmc_colors_ordered \in {None, BuiltColors}
    /\ _dmc_lab_array \in {None, BuiltLabArray(BuiltColors)}
    /\ _dmc_lab_array # None => RowsBelong(_dmc_colors_ordered, _dmc_lab_array)
    /\ \A t \in Threads :
          /\ th_pc[t] = "scan" => th_local[t].table = BuiltLabTable
          /\ th_pc[t] = "numpy_load_labs" => th_local[t].ret_colors # None
          /\ th_local[t].cache_calls >= 1 =>
                RowsBelong(th_local[t].ret_colors, th_local[t].ret_labs)
          /\ th_pc[t] = "select" =>
                RowsBelong(th_local[t].dmc_colors_ordered, th_local[t].dmc_labs)
          /\ th_pc[t] = "done" => th_result[t] = SingleThreaded(th_call[t])

\* two select_palette calls raced: both found the LAB array unset and both
\* built it, and both have returned
C23_Witness ==
    /\ \A t \in Threads :
          /\ th_call[t].fn = "select_palette"
          /\ th_pc[t] = "done"
          /\ th_local[t].labs # None
          /\ th_result[t].error = "none"
    /\ _dmc_lab_array # None

(***************************************************************************)
(* Properties of the fallback remapping of select_palette                  *)
(***************************************************************************)
\* flat positions of the pixels whose matched DMC colour was not selected
RemappedPixels ==
    { i \in 1..Len(flat_dmc_indices) :
        flat_dmc_indices[i] \notin Range(top_dmc_indices) }

\* palette index stored for the pixel at flat position i
AssignedIndex(i) ==
    sp_result.index_grid[((i - 1) \div Width(pixels)) + 1][((i - 1) % Width(pixels)) + 1]

\* LAB colour of palette entry k (0-based)
PaletteLab(k) == rgb_to_lab(sp_result.palette[k + 1])

\* k is the lowest palette index among those nearest to the LAB colour lab
\* (Delta-E orders as its square does)
LowestNearest(k, lab) ==
    /\ k \in 0..(Len(sp_result.palette) - 1)
    /\ \A m \in 0..(Len(sp_result.palette) - 1) :
          /\ dist_sq(lab, PaletteLab(k)) <= dist_sq(lab, PaletteLab(m))
          /\ m < k => dist_sq(lab, PaletteLab(k)) < dist_sq(lab, PaletteLab(m))

\* LAB colour of the pixel at flat position i
PixelLab(i) == rgb_to_lab(Flatten(pixels)[i])

\* LAB colour of the DMC colour matched to the pixel at flat position i
MatchedLab(i) == rgb_to_lab(RgbOf(dmc_colors_ordered[flat_dmc_indices[i] + 1]))

\* C24 (as claimed): every pixel whose matched DMC colour is not in the
\* final palette is assigned the palette colour with the smallest Delta-E to
\* that pixel's own colour, the lowest index among equally near ones.
C24_NearestToPixel ==
    Returned => \A i \in RemappedPixels : LowestNearest(AssignedIndex(i), PixelLab(i))

\* C24 (amended): every pixel whose matched DMC colour is not in the final
\* palette is assigned the palette colour with the smallest Delta-E to that
\* pixel's matched DMC colour, the lowest index among equally near ones, so
\* no palette colour is strictly nearer to the matched DMC colour than the
\* one assigned.
C24_NearestToMatchedColor ==
    Returned => \A i \in RemappedPixels : LowestNearest(AssignedIndex(i), MatchedLab(i))

\* a returned result with a remapped pixel and a palette of two or more
\* colours, whose assigned colour is not palette entry 0
C24_Witness ==
    /\ Returned
    /\ Len(sp_result.palette) >= 2
    /\ \E i \in RemappedPixels : AssignedIndex(i) > 0

C25_MatchingEqualsScalarLookup ==
    sp_pc # "step1" /\ sp_pc # "idle" =>
        \A i \in 1..Len(flat_dmc_indices) :
            flat_dmc_indices[i] + 1 = find_nearest_dmc(Flatten(pixels)[i])

(***************************************************************************)
(* Properties of the Pattern a conversion returns                          *)
(***************************************************************************)
\* the values occurring in a grid
CellValues(grid) == UNION { Range(grid[y]) : y \in 1..Len(grid) }

\* C26: every Pattern returned by ConvertImageToPattern.execute or
\* run_pattern_workflow has a grid of exactly target_width x target_height
\* cells in which every index is in [0, len(palette.colors)), also after
\* confetti reduction, which only writes values that occur in its input
\* grid; dmc_colors[index] is in range for every cell.
C26_PatternIndicesInRange ==
    (wf_entry \in {E_Convert, E_Workflow} /\ PatternBuilt) =>
        LET grid == wf_result.pattern.grid
            colors == wf_result.pattern.palette.colors
        IN  /\ grid.width = wf_target[1]
            /\ grid.height = wf_target[2]
            /\ Len(grid.cells) = wf_target[2]
            /\ \A y \in 1..Len(grid.cells) :
                  /\ Len(grid.cells[y]) = wf_target[1]
                  /\ \A x \in 1..Len(grid.cells[y]) :
                        /\ grid.cells[y][x] >= 0
                        /\ grid.cells[y][x] < Len(colors)
                        /\ grid.cells[y][x] + 1 \in DOMAIN wf_result.dmc_colors
            /\ CellValues(grid.cells) \subseteq CellValues(wf_selected.index_grid)

\* run_pattern_workflow returned a Pattern with a palette of two or more
\* colours whose grid the confetti reduction changed
C26_Witness ==
    /\ wf_entry = E_Workflow
    /\ wf_pc = "done"
    /\ wf_result.status = "ok"
    /\ Len(wf_result.pattern.palette.colors) >= 2
    /\ Cardinality(PositionsOf("reduce_confetti")) = 1
    /\ wf_result.pattern.grid.cells # wf_selected.index_grid

(***************************************************************************)
(* The centre marks of a tiling                                            *)
(***************************************************************************)
\* the tiles of the band of tile k that carry the given centre field
CarriersInBand(k, same_band(_, _), carries(_)) ==
    { j \in 1..Len(Tiles) : same_band(Tiles[j], Tiles[k]) /\ carries(Tiles[j]) }

CarriesCol(t) == t.center_col # None

CarriesRow(t) == t.center_row # None

\* C27: in every compute_tiles result exactly one tile has both center_col
\* and center_row non-null, within every row band exactly one tile has a
\* non-null center_col and within every column band exactly one tile has a
\* non-null center_row, also when a centre falls on a tile boundary.
C27_CentreMarkedExactlyOnce ==
    TilesReturned =>
        /\ Cardinality({ k \in 1..Len(Tiles) :
                            CarriesCol(Tiles[k]) /\ CarriesRow(Tiles[k]) }) = 1
        /\ \A k \in 1..Len(Tiles) :
              /\ Cardinality(CarriersInBand(k, SameRowBand, CarriesCol)) = 1
              /\ Cardinality(CarriersInBand(k, SameColBand, CarriesRow)) = 1

\* a tiling of two or more bands each way in which both centres lie on tile
\* boundaries
C27_Witness ==
    /\ TilesReturned
    /\ \E j, k \in 1..Len(Tiles) :
          /\ 2 * Tiles[j].col_end = calc_args.grid_width
          /\ Tiles[j].col_end < calc_args.grid_width
          /\ 2 * Tiles[k].row_end = calc_args.grid_height
          /\ Tiles[k].row_end < calc_args.grid_height

(***************************************************************************)
(* Tie-breaking of the mode in reduce_confetti                             *)
(***************************************************************************)
\* the most frequent values of the list `neighbors`: every one of them is a
\* mode some selection order would return
ModesOf(nbrs) ==
    { v \in Range(nbrs) :
        \A w \in Range(nbrs) : CountOf(w, nbrs) <= CountOf(v, nbrs) }

\* what the loop body leaves in a cell holding `own` when the mode selected
\* is m
DecidedWith(own, nbrs, m) ==
    IF Len(nbrs) < 3 THEN own
    ELSE IF ShouldReplace(own, m, CountOf(m, nbrs)) THEN m
    ELSE own

\* C28: the output of a pass does not depend on which of equally frequent
\* neighbour values is taken as the mode: every choice leaves the value the
\* code leaves, and a replaced cell holds the only value that at least 5 of
\* its at most 8 neighbours hold.
C28_TieBreakIrrelevant ==
    (InConfetti /\ passes_done >= 1) =>
        \A r \in 1..Rows(pass_start) : \A c \in 1..Cols(pass_start) :
            LET new == heap[cells][r][c]
                own == pass_start[r][c]
                nbrs == Neighbors(pass_start, r, c)
            IN  /\ Len(nbrs) <= 8
                /\ \A m \in ModesOf(nbrs) : DecidedWith(own, nbrs, m) = new
                /\ new # own =>
                      { v \in Range(nbrs) : CountOf(v, nbrs) >= 5 } = {new}

\* a pass that replaced a cell and kept another whose neighbours have two
\* equally frequent values, the first of them in raster order not its own
C28_Witness ==
    /\ InConfetti /\ passes_done >= 1
    /\ \E r \in 1..Rows(pass_start) : \E c \in 1..Cols(pass_start) :
          heap[cells][r][c] # pass_start[r][c]
    /\ \E r \in 1..Rows(pass_start) : \E c \in 1..Cols(pass_start) :
          LET nbrs == Neighbors(pass_start, r, c)
          IN  /\ Cardinality(ModesOf(nbrs)) >= 2
              /\ nbrs[1] \in ModesOf(nbrs)
              /\ nbrs[1] # pass_start[r][c]
              /\ heap[cells][r][c] = pass_start[r][c]

(***************************************************************************)
(* The scores of the style classifier                                      *)
(***************************************************************************)
\* the adjacent pairs of a grid: every pixel with its right and with its
\* below neighbour, where present
AdjacentPairs(px) ==
    { << q, << q[1], q[2] + 1 >> >> :
        q \in { e \in (1..Len(px)) \X (1..Len(px[1])) : e[2] < Len(px[1]) } }
    \cup { << q, << q[1] + 1, q[2] >> >> :
        q \in { e \in (1..Len(px)) \X (1..Len(px[1])) : e[1] < Len(px) } }

DiffOfPair(px, p) == PairDiff(px[p[1][1]][p[1][2]], px[p[2][1]][p[2][2]])

\* C29: for every non-empty grid, flat_ratio is the fraction of the adjacent
\* pairs (each pixel with its right and its below neighbour, every pair
\* once) whose diff |dR| + |dG| + |dB| is below 15, and 0 when there is no
\* pair; edge_density is the fraction of the pixels whose largest diff over
\* their own pairs exceeds 60; both lie in [0, 1], also for a 1x1 grid.
C29_ScoresCountPairsAndEdges ==
    (det_pc = "done" /\ ~DetEmpty) =>
        LET pairs == AdjacentPairs(det_pixels)
            flat == { p \in pairs : DiffOfPair(det_pixels, p) < 15 }
            h == Len(det_pixels)
            w == Len(det_pixels[1])
        IN  /\ det_result.raised = "none"
            /\ Cardinality(pairs) = h * (w - 1) + w * (h - 1)
            /\ det_result.flat_ratio =
                  IF pairs = {} THEN << 0, 1 >>
                  ELSE << Cardinality(flat), Cardinality(pairs) >>
            /\ det_result.edge_density =
                  << Cardinality(EdgePixelSet(det_pixels)), h * w >>
            /\ \A f \in {det_result.flat_ratio, det_result.edge_density} :
                  f[2] > 0 /\ 0 <= f[1] /\ f[1] <= f[2]

\* a 2x2 grid whose first pixel differs by exactly 15 from its right and by
\* exactly 60 from its below neighbour: neither flat nor an edge
C29_Witness ==
    /\ det_pc = "done"
    /\ Len(det_pixels) = 2 /\ Len(det_pixels[1]) = 2
    /\ PairDiff(det_pixels[1][1], det_pixels[1][2]) = 15
    /\ PairDiff(det_pixels[1][1], det_pixels[2][1]) = 60
    /\ << 1, 1 >> \notin EdgePixelSet(det_pixels)
    /\ det_result.flat_ratio[1] < 4

\* the 1x1 grid: no pairs, both scores zero
C29_SinglePixel ==
    (det_pc = "done" /\ Len(det_pixels) = 1 /\ Len(det_pixels[1]) = 1) =>
        /\ det_result.flat_ratio = << 0, 1 >>
        /\ det_result.edge_density = << 0, 1 >>

(***************************************************************************)
(* Page capacities                                                         *)
(***************************************************************************)
CapacityReturned ==
    calc_fn = "page_capacity" /\ calc_pc = "done" /\ calc_result.error = "none"

\* floor(available / (cell_mm * 2.8346)), lengths in hundredths of a point
\* and cell_mm in hundredths of a millimetre
CapacityOf(available, cell_mm) == (available * 10000) \div (cell_mm * 28346)

\* C30 (as claimed): cols_per_page = floor((595.28 - 2*56.69 - 28) / (cell_mm
\* * 2.8346)) and rows_per_page = floor((841.89 - 2*56.69 - 14) / (cell_mm *
\* 2.8346)), one label margin subtracted per axis, both >= 1 on [3.0, 5.0].
C30_OneLabelMarginPerAxis ==
    CapacityReturned =>
        /\ calc_result.value.cols_per_page =
              CapacityOf(59528 - 2 * 5669 - 2800, calc_args.cell_mm)
        /\ calc_result.value.rows_per_page =
              CapacityOf(84189 - 2 * 5669 - 1400, calc_args.cell_mm)
        /\ calc_result.value.cols_per_page >= 1
        /\ calc_result.value.rows_per_page >= 1

\* C30 (amended): cols_per_page = floor((595.28 - 2*56.69 - 28) / (cell_mm *
\* 2.8346)) and rows_per_page = floor((841.89 - 2*56.69 - 14 - 14) / (cell_mm
\* * 2.8346)), the top label margin and the footer height both subtracted;
\* both >= 1 for every cell size in [3.0, 5.0].
C30_RowsAlsoLoseFooter ==
    CapacityReturned =>
        /\ calc_result.value.cols_per_page =
              CapacityOf(59528 - 2 * 5669 - 2800, calc_args.cell_mm)
        /\ calc_result.value.rows_per_page =
              CapacityOf(84189 - 2 * 5669 - 1400 - 1400, calc_args.cell_mm)
        /\ calc_result.value.cols_per_page >= 1
        /\ calc_result.value.rows_per_page >= 1

\* the capacities at 5.0 mm, 32 columns and 49 rows, have been computed
C30_Witness ==
    /\ CapacityReturned
    /\ calc_args.cell_mm = 500
    /\ calc_result.value = [cols_per_page |-> 32, rows_per_page |-> 49]

====
